---------------------------- MODULE Spec2Model ----------------------------
(***************************************************************************)
(* A model of MSS-AutoTeam (src/main.py, src/clb_loader.py): the lineup    *)
(* validator, the run-button logic of the form, and the automation engine  *)
(* of class Formationizer (captain resolution, Mii page navigation, the    *)
(* swap-on-drop lineup reorderer and the code patch compiler).             *)
(*                                                                         *)
(* A player is the tuple <<characterId, battingOrder, fieldingPosition>>   *)
(* (the Python list [char_id, batting_pos, fielding_pos]); Python's        *)
(* 0-based player[0], player[1], player[2] are p[1], p[2], p[3] here, and  *)
(* Python's team[i] is team[i+1].                                          *)
(***************************************************************************)
EXTENDS Integers, Sequences, FiniteSets, TLC

VARIABLES
    vteam,              \* validate: the team handed to validate_team_lineup
    vmiis,              \* validate: len(mii_list) behind the char_list argument
    vedits,             \* validate: edits applied to the constructed team
    vresult,            \* validate: the pair returned by validate_team_lineup
    team1,              \* myFormationizer.team1, the away team
    team2,              \* myFormationizer.team2, the home team
    total_miis,         \* myFormationizer.total_miis = len(mii_list)
    teams,              \* the saved teams (global teams)
    team_names,         \* their names (global team_names), same order
    awayTeamSelected,   \* mssApp.awayTeamSelected
    homeTeamSelected,   \* mssApp.homeTeamSelected
    buttonState,        \* state of mssApp.buttonStart: "normal" or "disabled"
    automating,         \* TRUE while automate() called from confirmAndRun runs
    lteam,              \* lineup_code_rev: its argument team
    mlist,              \* lineup_code_rev: the local list of the team's Miis
    pos,                \* lineup_code_rev: the belief cursor column (0-based)
    i,                  \* lineup_code_rev: the scan index (0-based)
    lpc,                \* lineup_code_rev: "start", "loop" or "done"
    iters,              \* lineup_code_rev: loop iterations run so far
    swaps,              \* lineup_code_rev: iterations that swapped in mlist
    keys,               \* lineup_code_rev: the keys pressed so far, in order
    widget,             \* the batting-order widget of the game client
    stadium,            \* myFormationizer.stadium: <<stadium id, day/night>>
    rules,              \* myFormationizer.rules: <<innings, mercy, stars, items>>
    default_away_captain_id,    \* options.default_away_captain_id
    default_home_captain_id,    \* options.default_home_captain_id
    auto_start_game,    \* options.auto_start_game
    hooked,             \* TRUE while the memory engine is attached (DMM)
    dmm,                \* the calls made to the memory engine, in order
    apc,                \* where the running automation call stands
    raised,             \* the exception leaving the call, or "none"
    marr,               \* handleMiis: arr, the <<Mii index, batting order>> pairs
    mdir,               \* handleMiis: dir, 0 for the away team, 1 for the home team
    mi,                 \* handleMiis: entries of arr processed so far
    mpc,                \* handleMiis: "entry", "loop", "done" or "raised"
    mseg,               \* handleMiis: the presses made for the last entry
    kbd,                \* handleMiis: all presses made so far, in order
    currLine,           \* generate_whodeyy_code: the address of the next word
    countline,          \* generate_whodeyy_code: the words counted so far
    windows,            \* automate: for each window whose title matches, whether
                        \* its activation succeeds ("ok") or raises ("fails")
    out,                \* automate: every capability call made so far, in order
    team_roster,        \* clb_loader: the team handed to save_clb_lineup
    mii_list,           \* clb_loader: the names of the Miis of RFL_DB.dat, in order
    clb_data,           \* clb_loader: the saved lineup, or <<>>
    reloaded,           \* clb_loader: the team convert_clb_lineup returned, or <<>>
    fpc,                \* clb_loader: "idle", "team", "saved" or "loaded"
    xtokens,            \* execute: its argument instructions, letter by letter
    ip,                 \* execute: letters of instructions handled so far
    xheld,              \* execute: the key pressed and not released, or ""
    events,             \* execute: the calls made to the keyboard, in order
    xpc                 \* execute: "idle", "loop" or "returned"

valVars == <<vteam, vmiis, vedits, vresult>>
orcVars == <<team1, team2, total_miis>>
uiVars == <<teams, team_names, awayTeamSelected, homeTeamSelected, buttonState,
            automating>>

luVars == <<lteam, mlist, pos, i, lpc, iters, swaps, keys, widget>>

runVars == <<stadium, rules, default_away_captain_id, default_home_captain_id,
             auto_start_game, hooked, dmm, apc, raised>>

miiVars == <<marr, mdir, mi, mpc, mseg, kbd>>

patchVars == <<currLine, countline>>

autoVars == <<windows, out>>

clbVars == <<team_roster, mii_list, clb_data, reloaded, fpc>>

exeVars == <<xtokens, ip, xheld, events, xpc>>

vars == <<valVars, orcVars, uiVars, luVars, runVars, miiVars, patchVars, autoVars,
          clbVars, exeVars>>

\* What the actions of one part leave alone.
notVal == <<exeVars, clbVars, orcVars, uiVars, luVars, runVars, miiVars, patchVars, autoVars>>
notUi == <<exeVars, clbVars, valVars, luVars, runVars, miiVars, patchVars, autoVars>>
notLu == <<exeVars, clbVars, valVars, orcVars, uiVars, runVars, miiVars, patchVars, autoVars>>
notPatch == <<exeVars, valVars, orcVars, uiVars, luVars, miiVars, stadium, rules,
              default_away_captain_id, default_home_captain_id, auto_start_game,
              autoVars, clbVars>>
notFin == <<notPatch, patchVars>>
notMii == <<exeVars, valVars, team1, team2, uiVars, luVars, runVars, patchVars, autoVars,
           clbVars>>
notAuto == <<exeVars, valVars, orcVars, uiVars, luVars, patchVars, stadium, rules,
             default_away_captain_id, default_home_captain_id, auto_start_game,
             marr, mdir, mi, mpc, mseg, windows, clbVars>>
notClb == <<exeVars, valVars, orcVars, uiVars, luVars, runVars, miiVars, patchVars, autoVars>>

-----------------------------------------------------------------------------
(* Bounds of the model.                                                    *)

\* Most Miis loaded from the Mii database.
MaxMiiDb == 2
\* Most saved teams (distinct team names) of the team manager.
MaxTeams == 2
\* Most Miis in a team handed to the lineup reorderer.
MaxMiis == 4
\* Most Miis in the Mii registry that handleMiis pages through.
MaxRegistry == 25
\* Most edits applied to the constructed team before it is validated.
MaxEdits == 2
\* The players of the constructed team whose fields are edited.
EditPlayers == 2

-----------------------------------------------------------------------------
(* Program constants.                                                      *)

\* len(charList) before any Mii is appended: ids 0..76 are fixed characters.
BaseCharCount == 77
\* A team has 9 players, batting orders and fielding positions are 0..8.
TeamSize == 9

None == "None"

\* charList as built at start-up and in updateChars: the 77 fixed names
\* followed by one entry per loaded Mii.  Entry j stands for the name of id j-1.
CharList(miis) == [j \in 1..(BaseCharCount + miis) |-> j - 1]

\* The two teams the orchestrator is constructed with.
DefaultAway == [j \in 1..TeamSize |-> <<0, j - 1, j - 1>>]
DefaultHome == [j \in 1..TeamSize |-> <<1, j - 1, j - 1>>]

-----------------------------------------------------------------------------
(* validate_team_lineup                                                    *)

Fail(team_name, msg) == <<FALSE, team_name \o msg>>

\* The final two checks, after the loop over the players.
ValidateCoverage(team_name, batting_positions, fielding_positions) ==
    IF batting_positions # 0..(TeamSize - 1)
    THEN Fail(team_name, ": Missing batting position(s)")
    ELSE IF fielding_positions # 0..(TeamSize - 1)
    THEN Fail(team_name, ": Missing fielding position(s)")
    ELSE <<TRUE, None>>

\* The character-id range check of the loop.
InvalidCharacterIdOffByOne(char_id, char_list) ==
    char_id < 0 \/ char_id > Len(char_list)

InvalidCharacterId(char_id, char_list) ==
    char_id < 0 \/ char_id >= Len(char_list)

\* One player of the loop: the checks in source order, each an early return.
RECURSIVE ValidatePlayers(_, _, _, _, _, _)
ValidatePlayers(team, team_name, char_list, n, batting_positions, fielding_positions) ==
    IF n > Len(team)
    THEN ValidateCoverage(team_name, batting_positions, fielding_positions)
    ELSE LET player == team[n] IN
         IF Len(player) # 3
         THEN Fail(team_name, ": Player has invalid data format")
         ELSE LET char_id == player[1]
                  batting_pos == player[2]
                  fielding_pos == player[3]
              IN IF InvalidCharacterId(char_id, char_list)
                 THEN Fail(team_name, ": Player has invalid character ID")
                 ELSE IF batting_pos < 0 \/ batting_pos > 8
                 THEN Fail(team_name, ": Player has invalid batting position")
                 ELSE IF batting_pos \in batting_positions
                 THEN Fail(team_name, ": Duplicate batting position")
                 ELSE IF fielding_pos < 0 \/ fielding_pos > 8
                 THEN Fail(team_name, ": Player has invalid fielding position")
                 ELSE IF fielding_pos \in fielding_positions
                 THEN Fail(team_name, ": Duplicate fielding position")
                 ELSE ValidatePlayers(team, team_name, char_list, n + 1,
                                      batting_positions \cup {batting_pos},
                                      fielding_positions \cup {fielding_pos})

validate_team_lineup(team, team_name, char_list) ==
    IF team = <<>>
    THEN Fail(team_name, ": No team data")
    ELSE IF Len(team) # TeamSize
    THEN Fail(team_name, ": Expected 9 players")
    ELSE ValidatePlayers(team, team_name, char_list, 1, {}, {})

-----------------------------------------------------------------------------
(* The validator applied to constructed teams: the team starts as the      *)
(* orchestrator's default away team and is edited field by field; every    *)
(* edit hands the new team to validate_team_lineup.                        *)

FieldSamples == (-1)..TeamSize
CidSamples == {-1, 0, BaseCharCount - 1} \cup (BaseCharCount..(BaseCharCount + MaxMiiDb))

\* The state of the parts a specification does not exercise.
ValIdle == vteam = <<>> /\ vmiis = 0 /\ vedits = 0 /\ vresult = <<TRUE, None>>
OrcIdle == team1 = DefaultAway /\ team2 = DefaultHome /\ total_miis = 0
UiIdle ==
    /\ teams = <<>> /\ team_names = <<>>
    /\ awayTeamSelected = FALSE /\ homeTeamSelected = FALSE
    /\ buttonState = "disabled" /\ automating = FALSE

NoWidget == [cols |-> <<>>, cursor |-> 0, held |-> -1]
LuIdle ==
    /\ lteam = <<>> /\ mlist = <<>> /\ pos = 0 /\ i = 0 /\ lpc = "done"
    /\ iters = 0 /\ swaps = 0 /\ keys = <<>> /\ widget = NoWidget

RunIdle ==
    /\ stadium = <<0, 0>> /\ rules = <<9, 1, 1, 0>>
    /\ default_away_captain_id = 0 /\ default_home_captain_id = 1
    /\ auto_start_game = FALSE
    /\ hooked = FALSE /\ dmm = <<>> /\ apc = "idle" /\ raised = "none"

MiiIdle ==
    /\ marr = <<>> /\ mdir = 0 /\ mi = 0 /\ mpc = "done" /\ mseg = <<>> /\ kbd = <<>>

PatchIdle ==
    /\ currLine = <<0, 0>> /\ countline = 0

AutoIdle ==
    /\ windows = <<>> /\ out = <<>>

ClbIdle ==
    /\ team_roster = <<>> /\ mii_list = <<>> /\ clb_data = <<>> /\ reloaded = <<>>
    /\ fpc = "idle"

ExeIdle ==
    /\ xtokens = <<>> /\ ip = 0 /\ xheld = "" /\ events = <<>> /\ xpc = "idle"

Validated(team) ==
    /\ UNCHANGED notVal
    /\ vteam' = team
    /\ vedits' = vedits + 1
    /\ vresult' = validate_team_lineup(team, "Away", CharList(vmiis))
    /\ UNCHANGED vmiis

CanEdit == vedits < MaxEdits

EditCharacter ==
    /\ CanEdit
    /\ \E n \in 1..EditPlayers, c \in CidSamples :
          /\ n <= Len(vteam) /\ Len(vteam[n]) = 3
          /\ Validated([vteam EXCEPT ![n][1] = c])

EditBatting ==
    /\ CanEdit
    /\ \E n \in 1..EditPlayers, b \in FieldSamples :
          /\ n <= Len(vteam) /\ Len(vteam[n]) = 3
          /\ Validated([vteam EXCEPT ![n][2] = b])

EditFielding ==
    /\ CanEdit
    /\ \E n \in 1..EditPlayers, f \in FieldSamples :
          /\ n <= Len(vteam) /\ Len(vteam[n]) = 3
          /\ Validated([vteam EXCEPT ![n][3] = f])

TruncatePlayer ==
    /\ CanEdit
    /\ \E n \in 1..EditPlayers :
          /\ n <= Len(vteam) /\ Len(vteam[n]) = 3
          /\ Validated([vteam EXCEPT ![n] = SubSeq(vteam[n], 1, 2)])

DropPlayer ==
    /\ CanEdit
    /\ vteam # <<>>
    /\ Validated(SubSeq(vteam, 1, Len(vteam) - 1))

AddPlayer ==
    /\ CanEdit
    /\ \E b \in FieldSamples : Validated(Append(vteam, <<0, b, b>>))

ClearTeam ==
    /\ CanEdit
    /\ Validated(<<>>)

InitValidate ==
    /\ vteam = DefaultAway
    /\ vmiis \in {0, MaxMiiDb}
    /\ vedits = 0
    /\ vresult = validate_team_lineup(vteam, "Away", CharList(vmiis))
    /\ OrcIdle /\ UiIdle /\ LuIdle /\ RunIdle /\ MiiIdle /\ PatchIdle /\ AutoIdle /\ ClbIdle /\ ExeIdle

NextValidate ==
    \/ EditCharacter
    \/ EditBatting
    \/ EditFielding
    \/ TruncatePlayer
    \/ DropPlayer
    \/ AddPlayer
    \/ ClearTeam

SpecValidate == InitValidate /\ [][NextValidate]_vars

-----------------------------------------------------------------------------
(* C1                                                                      *)

WellFormedPlayers(team) == \A n \in 1..Len(team) : Len(team[n]) = 3

\* What the claim calls a valid lineup, stated without the validator.
IsLineup(team, char_count) ==
    /\ Len(team) = 9
    /\ WellFormedPlayers(team)
    /\ \A n \in 1..Len(team) : team[n][1] >= 0 /\ team[n][1] < char_count
    /\ \A v \in 0..8 : Cardinality({n \in 1..Len(team) : team[n][2] = v}) = 1
    /\ \A v \in 0..8 : Cardinality({n \in 1..Len(team) : team[n][3] = v}) = 1

\* C1: validate_team_lineup returns (True, None) exactly when the team has 9
\* players, every characterId is in [0, len(char_list)), and the batting
\* orders and the fielding positions are each a permutation of 0..8; in every
\* other case it returns False with a non-empty reason string.
C1_ValidateIffLineup ==
    /\ (vresult = <<TRUE, None>>) <=> IsLineup(vteam, BaseCharCount + vmiis)
    /\ vresult # <<TRUE, None>> =>
          /\ vresult[1] = FALSE
          /\ vresult[2] # None
          /\ Len(vresult[2]) > 0

\* An edited team that is a lineup other than the default one, accepted.
C1_WitnessAccepted ==
    /\ vedits = MaxEdits
    /\ vteam # DefaultAway
    /\ IsLineup(vteam, BaseCharCount + vmiis)
    /\ vresult = <<TRUE, None>>

-----------------------------------------------------------------------------
(* The form (class mssApp): team selection, the team manager, the Mii      *)
(* database reload and the run button.                                     *)

\* A saved lineup whose second player is the Mii with index m (id 77 + m).
TeamWithMii(m) == [DefaultAway EXCEPT ![2][1] = BaseCharCount + m]

\* A lineup file in which one player did not resolve: convert_clb_lineup
\* skips the player and returns the 8 others.
ShortTeam == SubSeq(DefaultHome, 1, TeamSize - 1)

SampleLineups == {DefaultHome} \cup {TeamWithMii(m) : m \in 0..(MaxMiiDb - 1)}

IsValid(team, miis) == validate_team_lineup(team, "Team", CharList(miis))[1]

\* What load_clb_saves can return when miis Miis are loaded: every Mii of a
\* loaded team was resolved against mii_list.
Loadable(miis) == {t \in SampleLineups : IsValid(t, miis)} \cup {ShortTeam}

\* What saveTeam can build in the editor: charList.index(name) for each of 9
\* entries, batting and fielding slots each used once.
Savable(miis) == {t \in SampleLineups : IsValid(t, miis)}

\* updateRunButtonState: the state it configures the run button with.
updateRunButtonState(selAway, selHome, t1, t2, miis) ==
    IF selAway /\ selHome
    THEN LET away_valid == validate_team_lineup(t1, "Away", CharList(miis))[1]
             home_valid == validate_team_lineup(t2, "Home", CharList(miis))[1]
         IN IF away_valid /\ home_valid THEN "normal" ELSE "disabled"
    ELSE "disabled"

UiReady == ~automating

\* <<ComboboxSelected>> on comboxAway: setAway, then onTeamSelected('away').
SelectAway ==
    /\ UiReady
    /\ \E t \in 1..Len(teams) :
          /\ team1' = teams[t]
          /\ awayTeamSelected' = TRUE
          /\ buttonState' = updateRunButtonState(TRUE, homeTeamSelected,
                                                 teams[t], team2, total_miis)
    /\ UNCHANGED <<team2, total_miis, teams, team_names, homeTeamSelected,
                   automating, notUi>>

\* <<ComboboxSelected>> on comboxHome: setHome, then onTeamSelected('home').
SelectHome ==
    /\ UiReady
    /\ \E t \in 1..Len(teams) :
          /\ team2' = teams[t]
          /\ homeTeamSelected' = TRUE
          /\ buttonState' = updateRunButtonState(awayTeamSelected, TRUE,
                                                 team1, teams[t], total_miis)
    /\ UNCHANGED <<team1, total_miis, teams, team_names, awayTeamSelected,
                   automating, notUi>>

IndexOf(seq, x) == CHOOSE j \in 1..Len(seq) : seq[j] = x /\ \A h \in 1..(j - 1) : seq[h] # x

Range(seq) == {seq[j] : j \in 1..Len(seq)}

\* saveTeam with a valid editor content: an existing name is overwritten in
\* place (after the confirmation), a new name is appended.
SaveTeam ==
    /\ UiReady
    /\ \E name \in 1..MaxTeams, team \in Savable(total_miis) :
          IF name \in Range(team_names)
          THEN /\ teams' = [teams EXCEPT ![IndexOf(team_names, name)] = team]
               /\ UNCHANGED team_names
          ELSE /\ team_names' = Append(team_names, name)
               /\ teams' = Append(teams, team)
    /\ UNCHANGED <<orcVars, awayTeamSelected, homeTeamSelected, buttonState,
                   automating, notUi>>

RemoveAt(seq, j) == SubSeq(seq, 1, j - 1) \o SubSeq(seq, j + 1, Len(seq))

\* deleteTeam, confirmed: teams.pop(tid), team_names.pop(tid).
DeleteTeam ==
    /\ UiReady
    /\ \E tid \in 1..Len(teams) :
          /\ teams' = RemoveAt(teams, tid)
          /\ team_names' = RemoveAt(team_names, tid)
    /\ UNCHANGED <<orcVars, awayTeamSelected, homeTeamSelected, buttonState,
                   automating, notUi>>

\* updateChars: mii_list is reloaded from the given path, total_miis and
\* charList follow; the run button is left as it is.
updateChars ==
    /\ UiReady
    /\ \E n \in 0..MaxMiiDb : total_miis' = n
    /\ UNCHANGED <<team1, team2, uiVars, notUi>>

\* confirmAndRun, the command of the run button, confirmed: automate().
confirmAndRun ==
    /\ UiReady
    /\ buttonState = "normal"
    /\ automating' = TRUE
    /\ UNCHANGED <<orcVars, teams, team_names, awayTeamSelected,
                   homeTeamSelected, buttonState, notUi>>

\* automate() returns to the event loop.
AutomateReturns ==
    /\ automating
    /\ automating' = FALSE
    /\ UNCHANGED <<orcVars, teams, team_names, awayTeamSelected,
                   homeTeamSelected, buttonState, notUi>>

\* mssApp.__init__: saved teams loaded, the last selection restored when its
\* name is still a saved team, then updateRunButtonState().
InitUi ==
    /\ total_miis \in 0..MaxMiiDb
    /\ \E n \in 0..MaxTeams :
          /\ team_names = [j \in 1..n |-> j]
          /\ teams \in [1..n -> Loadable(total_miis)]
    /\ \E a \in 0..Len(teams) :
          /\ awayTeamSelected = (a # 0)
          /\ team1 = IF a = 0 THEN DefaultAway ELSE teams[a]
    /\ \E h \in 0..Len(teams) :
          /\ homeTeamSelected = (h # 0)
          /\ team2 = IF h = 0 THEN DefaultHome ELSE teams[h]
    /\ buttonState = updateRunButtonState(awayTeamSelected, homeTeamSelected,
                                          team1, team2, total_miis)
    /\ automating = FALSE
    /\ ValIdle /\ LuIdle /\ RunIdle /\ MiiIdle /\ PatchIdle /\ AutoIdle /\ ClbIdle /\ ExeIdle

NextUi ==
    \/ SelectAway
    \/ SelectHome
    \/ SaveTeam
    \/ DeleteTeam
    \/ updateChars
    \/ confirmAndRun
    \/ AutomateReturns

SpecUi == InitUi /\ [][NextUi]_vars

-----------------------------------------------------------------------------
(* C2                                                                      *)

BothTeamsValid == IsValid(team1, total_miis) /\ IsValid(team2, total_miis)

\* C2: whenever the run button is enabled, both teams held by the
\* orchestrator pass validate_team_lineup against the current character list,
\* so automate() never begins on a team that fails validation.
C2_EnabledImpliesValid ==
    /\ buttonState = "normal" => BothTeamsValid
    /\ automating => BothTeamsValid

-----------------------------------------------------------------------------
(* The batting-order widget of the client, with swap-on-drop semantics:    *)
(* cols[c+1] is the player (by roster index) shown in column c, the first  *)
(* confirm picks up the player under the cursor and the second confirm     *)
(* drops it, exchanging the occupants of the two columns.                  *)

IsMii(player) == player[1] > 76

SwapCols(cols, a, b) == [cols EXCEPT ![a] = cols[b], ![b] = cols[a]]

\* The cursor does not leave the columns of the widget: a press at either
\* end leaves it where it is.
WidgetPress(w, key) ==
    IF key = "r"
    THEN [w EXCEPT !.cursor = IF w.cursor < TeamSize - 1 THEN w.cursor + 1 ELSE w.cursor]
    ELSE IF key = "l"
    THEN [w EXCEPT !.cursor = IF w.cursor > 0 THEN w.cursor - 1 ELSE w.cursor]
    ELSE IF key = "a" /\ w.held = -1 THEN [w EXCEPT !.held = w.cursor]
    ELSE IF key = "a"
    THEN [w EXCEPT !.cols = SwapCols(w.cols, w.held + 1, w.cursor + 1), !.held = -1]
    ELSE w

\* The widget after the presses ks[n], ks[n+1], ... in order.
RECURSIVE WidgetApplyFrom(_, _, _)
WidgetApplyFrom(w, ks, n) ==
    IF n > Len(ks) THEN w
    ELSE CHOOSE r \in {WidgetApplyFrom(v, ks, n + 1) : v \in {WidgetPress(w, ks[n])}} : TRUE

WidgetApply(w, ks) == WidgetApplyFrom(w, ks, 1)

-----------------------------------------------------------------------------
(* lineup_code_rev                                                         *)

\* The roster indices of the team's Miis, in roster order.
RECURSIVE MiiIndices(_, _)
MiiIndices(team, j) ==
    IF j > Len(team) THEN <<>>
    ELSE (IF IsMii(team[j]) THEN <<j>> ELSE <<>>) \o MiiIndices(team, j + 1)

\* mlist (also mii1list, mii2list of the compiler): the Mii players in
\* roster order.
MiiList(team) == SelectSeq(team, IsMii)

Repeat(key, n) == [j \in 1..n |-> key]

MoveKeysOneShort(from, targ) ==
    IF from < targ THEN Repeat("r", targ - from - 1) ELSE Repeat("l", from - targ)

MoveKeysRightOnly(from, targ) ==
    IF from < targ THEN Repeat("r", targ - from) ELSE <<>>

\* The presses of "while pos < targ: press_right ... while pos > targ:
\* press_left" from belief column from to column targ.
MoveKeys(from, targ) ==
    IF from < targ THEN Repeat("r", targ - from) ELSE Repeat("l", from - targ)

\* The presses of one loop iteration: to column i+1, confirm, to the
\* batting order of mlist[i], confirm.
IterationKeys(ml, p, idx) ==
    MoveKeys(p, idx + 1) \o <<"a">> \o MoveKeys(idx + 1, ml[idx + 1][2]) \o <<"a">>

SwapsWhenNotBelow(targ, idx, ml) == targ >= idx + 1 /\ targ <= Len(ml)

\* The test that chooses between the swap in mlist and the advance of i.
SwapsInModel(targ, idx, ml) == targ > idx + 1 /\ targ <= Len(ml)

\* mlist = the team's Miis, pos = 0, i = 0.
LineupStart ==
    /\ lpc = "start"
    /\ mlist' = MiiList(lteam)
    /\ pos' = 0
    /\ i' = 0
    /\ lpc' = "loop"
    /\ UNCHANGED <<lteam, iters, swaps, keys, widget, notLu>>

\* One iteration in which the drop lands on a later entry of mlist: mlist[i]
\* and mlist[targ-1] are exchanged and i stays.
LineupSwap ==
    /\ lpc = "loop" /\ i < Len(mlist)
    /\ LET targ == mlist[i + 1][2]
           ks == IterationKeys(mlist, pos, i)
       IN /\ SwapsInModel(targ, i, mlist)
          /\ mlist' = [mlist EXCEPT ![i + 1] = mlist[targ], ![targ] = mlist[i + 1]]
          /\ pos' = targ
          /\ keys' = keys \o ks
          /\ widget' = WidgetApply(widget, ks)
    /\ iters' = iters + 1
    /\ swaps' = swaps + 1
    /\ UNCHANGED <<lteam, i, lpc, notLu>>

\* One iteration that settles slot i: i advances.
LineupAdvance ==
    /\ lpc = "loop" /\ i < Len(mlist)
    /\ LET targ == mlist[i + 1][2]
           ks == IterationKeys(mlist, pos, i)
       IN /\ ~SwapsInModel(targ, i, mlist)
          /\ pos' = targ
          /\ keys' = keys \o ks
          /\ widget' = WidgetApply(widget, ks)
    /\ i' = i + 1
    /\ iters' = iters + 1
    /\ UNCHANGED <<lteam, mlist, lpc, swaps, notLu>>

\* After the loop: the cursor is moved to column 8.
LineupFinish ==
    /\ lpc = "loop" /\ i >= Len(mlist)
    /\ LET ks == MoveKeys(pos, 8)
       IN /\ keys' = keys \o ks
          /\ widget' = WidgetApply(widget, ks)
    /\ pos' = 8
    /\ lpc' = "done"
    /\ UNCHANGED <<lteam, mlist, i, iters, swaps, notLu>>

-----------------------------------------------------------------------------
(* The teams handed to lineup_code_rev: k Miis with any k distinct batting *)
(* orders, at the front or at the back of the roster; the fixed characters *)
(* take the batting orders left over.                                      *)

RECURSIVE Ascending(_)
Ascending(S) ==
    IF S = {} THEN <<>>
    ELSE LET m == CHOOSE x \in S : \A y \in S : x <= y
         IN <<m>> \o Ascending(S \ {m})

Reverse(seq) == [j \in 1..Len(seq) |-> seq[Len(seq) + 1 - j]]

InjectiveSeqs(k, S) ==
    {f \in [1..k -> S] : \A a \in 1..k, b \in 1..k : a # b => f[a] # f[b]}

\* Fixed characters get the ids 10, 11, ... by roster place, Miis the ids
\* 77, 78, ... in roster order; fielding positions follow the roster.
LineupTeam(miiBats, layout) ==
    LET k == Len(miiBats)
        rest == Ascending((0..(TeamSize - 1)) \ Range(miiBats))
    IN IF layout = "front"
       THEN [j \in 1..TeamSize |->
                IF j <= k THEN <<BaseCharCount + j - 1, miiBats[j], j - 1>>
                ELSE <<9 + j, rest[j - k], j - 1>>]
       ELSE [j \in 1..TeamSize |->
                IF j > TeamSize - k
                THEN <<BaseCharCount + j - (TeamSize - k) - 1, miiBats[j - (TeamSize - k)], j - 1>>
                ELSE <<9 + j, Reverse(rest)[j], j - 1>>]

LineupTeams ==
    {LineupTeam(b, layout) :
        b \in UNION {InjectiveSeqs(k, 0..(TeamSize - 1)) : k \in 0..MaxMiis},
        layout \in {"front", "back"}}

\* The widget as the edit screen shows the team before any reordering: the
\* team's Miis in columns 1..k in roster order, the fixed characters in the
\* columns left over, in roster order.
InitialCols(team) ==
    LET miis == MiiIndices(team, 1)
        fixed == SelectSeq([j \in 1..Len(team) |-> j], LAMBDA j : ~IsMii(team[j]))
        k == Len(miis)
    IN [c \in 1..TeamSize |->
           IF c = 1 THEN fixed[1]
           ELSE IF c - 1 <= k THEN miis[c - 1]
           ELSE fixed[c - k]]

InitLineup ==
    /\ lteam \in LineupTeams
    /\ mlist = <<>> /\ pos = 0 /\ i = 0 /\ lpc = "start"
    /\ iters = 0 /\ swaps = 0 /\ keys = <<>>
    /\ widget = [cols |-> InitialCols(lteam), cursor |-> 0, held |-> -1]
    /\ ValIdle /\ OrcIdle /\ UiIdle /\ RunIdle /\ MiiIdle /\ PatchIdle /\ AutoIdle /\ ClbIdle /\ ExeIdle

NextLineup ==
    \/ LineupStart
    \/ LineupSwap
    \/ LineupAdvance
    \/ LineupFinish

\* automate() runs on one thread and no call of the loop blocks: a step
\* that can be taken is taken.
SpecLineup == InitLineup /\ [][NextLineup]_vars /\ WF_vars(NextLineup)

-----------------------------------------------------------------------------
(* C3, C4                                                                  *)

\* C3: when lineup_code_rev has completed, every Mii of the team is in the
\* widget column equal to its own batting order.
C3_MiisAtBattingOrder ==
    lpc = "done" =>
        \A j \in 1..Len(lteam) :
            IsMii(lteam[j]) => widget.cols[lteam[j][2] + 1] = j

\* The example of the claim: the Miis A, B, C (roster places 1, 2, 3) with
\* batting orders 2, 0, 1 end as B, C, A in columns 0, 1, 2.
C3_WitnessExample ==
    /\ lpc = "done"
    /\ lteam = LineupTeam(<<2, 0, 1>>, "front")
    /\ SubSeq(widget.cols, 1, 3) = <<2, 3, 1>>

IterationCounts ==
    /\ iters = i + swaps
    /\ lpc # "start" => /\ swaps <= Len(mlist)
                        /\ i <= Len(mlist)
                        /\ iters <= 2 * Len(mlist)

\* C4: lineup_code_rev terminates: every iteration either advances i or
\* swaps in mlist without advancing, at most len(mlist) iterations swap, so
\* at most 2 * len(mlist) iterations run, and the run reaches its end.
C4_Terminates == []IterationCounts /\ <>(lpc = "done")

\* A run in which a swap iteration happened and the loop came to its end.
C4_WitnessSwapThenDone ==
    /\ lpc = "done"
    /\ swaps >= 2
    /\ iters = Len(mlist) + swaps

-----------------------------------------------------------------------------
(* finalize                                                                *)

\* A 32-bit address or word as its two 16-bit halves <<high, low>>.
W(hi, lo) == <<hi, lo>>

\* The calls made to the memory engine.
Hook == <<"hook">>
UnHook == <<"un_hook">>
WriteByte(addr, val) == <<"write_byte", addr, val>>
WriteWord(addr, val) == <<"write_word", addr, val>>

\* The captain table.
captains == <<0, 1, 2, 3, 4, 5, 6, 9, 10, 11, 17, 19>>

InTable(id, table) == \E n \in 1..Len(table) : table[n] = id

\* table.index(id), 0-based.
TableIndex(id, table) == IndexOf(table, id) - 1

\* find_valid_captain: <<id>> for the id of the first player, in roster
\* order, whose id is in the captain table; <<>> for None.
RECURSIVE FindValidCaptainFrom(_, _)
FindValidCaptainFrom(team, n) ==
    IF n > Len(team) THEN <<>>
    ELSE IF InTable(team[n][1], captains) THEN <<team[n][1]>>
    ELSE FindValidCaptainFrom(team, n + 1)

find_valid_captain(team) == FindValidCaptainFrom(team, 1)

\* The fallback of the home team, "(1 if len(captains) > 1 else 0)".
HomeFallback(table) == IF Len(table) > 1 THEN 1 ELSE 0

\* As formation_code_rev did: the raw id of the chosen player.
CaptainByteRawId(team, default_id, fallback) ==
    IF InTable(team[1][1], captains)
    THEN team[1][1]
    ELSE LET roster_captain == find_valid_captain(team)
         IN IF roster_captain # <<>>
            THEN roster_captain[1]
            ELSE IF InTable(default_id, captains)
            THEN TableIndex(default_id, captains)
            ELSE fallback

CaptainByteIgnoresDefault(team, default_id, fallback) ==
    IF InTable(team[1][1], captains)
    THEN TableIndex(team[1][1], captains)
    ELSE LET roster_captain == find_valid_captain(team)
         IN IF roster_captain # <<>>
            THEN TableIndex(roster_captain[1], captains)
            ELSE fallback

\* The captain byte finalize computes for one team (c1 for the away team
\* with fallback 0, c2 for the home team with HomeFallback).
CaptainByte(team, default_id, fallback) ==
    IF InTable(team[1][1], captains)
    THEN TableIndex(team[1][1], captains)
    ELSE LET roster_captain == find_valid_captain(team)
         IN IF roster_captain # <<>>
            THEN TableIndex(roster_captain[1], captains)
            ELSE IF InTable(default_id, captains)
            THEN TableIndex(default_id, captains)
            ELSE fallback

\* As if the day/night value went to one cell only.
FinalizeWritesOneCell(t1, t2, st, rl, away_id, home_id) ==
    << WriteByte(W(\H811f, \H769d), st[1]),
       WriteByte(W(\H811f, \H769e), st[2]),
       WriteByte(W(\H811f, \H76ac), CaptainByte(t1, away_id, 0)),
       WriteByte(W(\H811f, \H76ad), CaptainByte(t2, home_id, HomeFallback(captains))),
       WriteByte(W(\H8079, \H4328), rl[1]),
       WriteByte(W(\H8079, \H4329), rl[2]),
       WriteByte(W(\H8079, \H432A), rl[3]),
       WriteByte(W(\H8079, \H432B), rl[4]) >>

\* The byte writes of finalize, in order.
FinalizeWrites(t1, t2, st, rl, away_id, home_id) ==
    << WriteByte(W(\H811f, \H769d), st[1]),
       WriteByte(W(\H811f, \H769e), st[2]),
       WriteByte(W(\H811f, \H769f), st[2]),
       WriteByte(W(\H811f, \H76ac), CaptainByte(t1, away_id, 0)),
       WriteByte(W(\H811f, \H76ad), CaptainByte(t2, home_id, HomeFallback(captains))),
       WriteByte(W(\H8079, \H4328), rl[1]),
       WriteByte(W(\H8079, \H4329), rl[2]),
       WriteByte(W(\H8079, \H432A), rl[3]),
       WriteByte(W(\H8079, \H432B), rl[4]) >>

\* The calls of one finalize(): DMM.hook(), then the writes.
FinalizeCalls(t1, t2, st, rl, away_id, home_id) ==
    <<Hook>> \o FinalizeWrites(t1, t2, st, rl, away_id, home_id)

\* Whether the engine is attached after the calls cs, made in order.
HookedAfter(h, cs, n) ==
    LET marks == {m \in n..Len(cs) : cs[m] \in {Hook, UnHook}}
    IN IF marks = {} THEN h
       ELSE cs[CHOOSE m \in marks : \A m2 \in marks : m2 <= m] = Hook

\* finalize() runs to its end.
FinalizeCompletes ==
    /\ apc = "finalize"
    /\ LET cs == FinalizeCalls(team1, team2, stadium, rules,
                               default_away_captain_id, default_home_captain_id)
       IN /\ dmm' = dmm \o cs
          /\ hooked' = HookedAfter(hooked, cs, 1)
    /\ apc' = "returned"
    /\ UNCHANGED <<raised, notFin>>

\* A call to the memory engine raises: the calls before it were made, the
\* exception leaves finalize().
FinalizeRaises ==
    /\ apc = "finalize"
    /\ LET cs == FinalizeCalls(team1, team2, stadium, rules,
                               default_away_captain_id, default_home_captain_id)
       IN \E n \in 0..(Len(cs) - 1) :
             /\ dmm' = dmm \o SubSeq(cs, 1, n)
             /\ hooked' = HookedAfter(hooked, SubSeq(cs, 1, n), 1)
    /\ apc' = "raised"
    /\ raised' = "DMM"
    /\ UNCHANGED notFin

\* Teams for the captain bytes: the ids of the first, the second and the
\* last player vary over captains, other fixed characters and a Mii; the
\* players between are fixed characters that are no captains.
CaptainTeam(c1, c2, c9) ==
    [j \in 1..TeamSize |->
        <<IF j = 1 THEN c1 ELSE IF j = 2 THEN c2 ELSE IF j = TeamSize THEN c9 ELSE 20 + j,
          j - 1, j - 1>>]

CaptainTeams ==
    {CaptainTeam(c1, c2, c9) : c1 \in {1, 9, 12, 77}, c2 \in {1, 9, 12, 77}, c9 \in {19, 29}}

DefaultIdSamples == {1, 19, 12}

\* [stadium id, day/night] and [innings, mercy, stars, items] as the
\* interface sets them.
StadiumSamples == {<<0, 0>>, <<5, 1>>}
RulesSamples == {<<9, 1, 1, 0>>, <<3, 0, 4, 2>>}

InitFinalize ==
    /\ team1 \in CaptainTeams
    /\ team2 \in CaptainTeams
    /\ total_miis = 1
    /\ stadium \in StadiumSamples /\ rules \in RulesSamples
    /\ default_away_captain_id \in DefaultIdSamples
    /\ default_home_captain_id \in DefaultIdSamples
    /\ auto_start_game = FALSE
    /\ hooked = FALSE /\ dmm = <<>> /\ apc = "finalize" /\ raised = "none"
    /\ ValIdle /\ UiIdle /\ LuIdle /\ MiiIdle /\ PatchIdle /\ AutoIdle /\ ClbIdle /\ ExeIdle

NextFinalize ==
    \/ FinalizeCompletes
    \/ FinalizeRaises

SpecFinalize == InitFinalize /\ [][NextFinalize]_vars

-----------------------------------------------------------------------------
(* C6, C7                                                                  *)

\* The byte last written to the cell at addr, -1 when none was.
WrittenAt(addr) ==
    LET hits == {n \in 1..Len(dmm) : dmm[n][1] = "write_byte" /\ dmm[n][2] = addr}
    IN IF hits = {} THEN -1
       ELSE dmm[CHOOSE n \in hits : \A m \in hits : m <= n][3]

AwayCell == W(\H811f, \H76ac)
HomeCell == W(\H811f, \H76ad)

HasEligible(team) == \E n \in 1..Len(team) : InTable(team[n][1], captains)

FirstEligible(team) ==
    CHOOSE n \in 1..Len(team) :
        /\ InTable(team[n][1], captains)
        /\ \A m \in 1..(n - 1) : ~InTable(team[m][1], captains)

\* The 0-based place of an id in the table [0,1,2,3,4,5,6,9,10,11,17,19],
\* spelled out.
PlaceInTable(id) ==
    IF id <= 6 THEN id
    ELSE IF id = 9 THEN 7 ELSE IF id = 10 THEN 8 ELSE IF id = 11 THEN 9
    ELSE IF id = 17 THEN 10 ELSE 11

ExpectedFromRoster(team) ==
    IF InTable(team[1][1], captains) THEN PlaceInTable(team[1][1])
    ELSE PlaceInTable(team[FirstEligible(team)][1])

\* C6: for a team with a captain-eligible player, the byte written is the
\* table index of team[0]'s id when that id is in the captain table, and
\* otherwise the table index of the first player in roster order whose id is
\* in the table; a team whose player 0 has id 9 gets 7.
C6_CaptainFromRoster ==
    apc = "returned" =>
        /\ HasEligible(team1) => WrittenAt(AwayCell) = ExpectedFromRoster(team1)
        /\ HasEligible(team2) => WrittenAt(HomeCell) = ExpectedFromRoster(team2)
        /\ team1[1][1] = 9 => WrittenAt(AwayCell) = 7
        /\ team2[1][1] = 9 => WrittenAt(HomeCell) = 7

\* Player 0 is no captain, the second player is the Mii, the last player is
\* Bowser Jr. (id 19): the scan finds the last player, index 11; the home
\* team's player 0 is Bowser (id 9), index 7.
C6_WitnessScanAndFirst ==
    /\ apc = "returned"
    /\ team1 = CaptainTeam(12, 77, 19) /\ WrittenAt(AwayCell) = 11
    /\ team2[1][1] = 9 /\ WrittenAt(HomeCell) = 7

ExpectedDefault(default_id, fallback) ==
    IF default_id \in {0, 1, 2, 3, 4, 5, 6, 9, 10, 11, 17, 19}
    THEN PlaceInTable(default_id) ELSE fallback

\* C7: for a team without a captain-eligible player the byte written is the
\* table index of the configured default id when that id is in the table,
\* and otherwise 0 for the away team and 1 for the home team; with the
\* configured default 1 it is 1.
C7_CaptainFromDefault ==
    apc = "returned" =>
        /\ ~HasEligible(team1) =>
              /\ WrittenAt(AwayCell) = ExpectedDefault(default_away_captain_id, 0)
              /\ default_away_captain_id = 1 => WrittenAt(AwayCell) = 1
        /\ ~HasEligible(team2) =>
              /\ WrittenAt(HomeCell) = ExpectedDefault(default_home_captain_id, 1)
              /\ default_home_captain_id = 1 => WrittenAt(HomeCell) = 1

\* Neither team has an eligible player; the away default 19 is in the table
\* (index 11), the home default 12 is not, so the home byte is the fallback 1.
C7_WitnessDefaults ==
    /\ apc = "returned"
    /\ ~HasEligible(team1) /\ ~HasEligible(team2)
    /\ default_away_captain_id = 19 /\ WrittenAt(AwayCell) = 11
    /\ default_home_captain_id = 12 /\ WrittenAt(HomeCell) = 1

-----------------------------------------------------------------------------
(* execute and handleMiis                                                  *)

\* The presses are named by the instruction letter of execute: "u" press_up,
\* "d" press_down, "l" press_left, "r" press_right, "a" press_a; "b" is
\* press_b, which execute does not know.  An instruction string is the
\* sequence of its letters.

\* execute(instructions): one press for each of u, d, l, r, a, in order;
\* "w" sleeps and any other letter is skipped.
execute(instructions) ==
    SelectSeq(instructions, LAMBDA c : c \in {"u", "d", "l", "r", "a"})

OpenSelector == execute(<<"a", "w", "l", "l", "l", "l", "l", "l">>)
PageAdvanceUnconfirmed == <<"r", "r", "r", "r", "r", "l", "l", "l", "l", "l">>
PageAdvance == execute(<<"r", "r", "r", "r", "r", "a", "l", "l", "l", "l", "l">>)
AnchorCorrection == <<"l", "l", "l", "u">>

RECURSIVE Concat(_, _)
Concat(seq, n) == IF n = 0 THEN <<>> ELSE seq \o Concat(seq, n - 1)

LastPageRoundedUp(total) == total \div 10

\* last_page = (total_miis - 1) // 10
LastPage(total) == (total - 1) \div 10

\* The presses handleMiis makes for the target index idx: the body of its
\* for loop.  The while loop runs idx // 10 times and leaves v = idx % 10.
SelectMiiKeys(idx, total) ==
    LET target_page == idx \div 10
        turns == idx \div 10
        v == idx % 10
    IN OpenSelector
       \o Concat(PageAdvance, turns)
       \o (IF target_page = LastPage(total) /\ turns = target_page
           THEN AnchorCorrection ELSE <<>>)
       \o Repeat("r", v % 5)
       \o (IF v >= 5 THEN <<"d">> ELSE <<>>)
       \o <<"a", "b">>

\* The presses after the loop: back to the edit view.
ReturnKeys(dir) == IF dir = 0 THEN execute(<<"u", "u", "a", "d", "d">>) ELSE execute(<<"d", "a", "u", "u">>)

\* total_miis = getattr(self, "total_miis", None) or getattr(self,
\* "mii_count", None): a total_miis of 0 is falsy, mii_count is never set,
\* so the value is None and ValueError is raised.
HandleMiisRaises ==
    /\ mpc = "entry"
    /\ total_miis = 0
    /\ mpc' = "raised"
    /\ UNCHANGED <<marr, mdir, mi, mseg, kbd, total_miis, notMii>>

HandleMiisEnter ==
    /\ mpc = "entry"
    /\ total_miis # 0
    /\ mpc' = "loop"
    /\ mi' = 0
    /\ UNCHANGED <<marr, mdir, mseg, kbd, total_miis, notMii>>

\* One pass of the for loop: the Mii arr[i][0] is selected.
HandleMiisSelect ==
    /\ mpc = "loop" /\ mi < Len(marr)
    /\ mseg' = SelectMiiKeys(marr[mi + 1][1], total_miis)
    /\ kbd' = kbd \o mseg'
    /\ mi' = mi + 1
    /\ UNCHANGED <<marr, mdir, mpc, total_miis, notMii>>

\* After the loop (or with an empty arr): the return sequence.
HandleMiisReturn ==
    /\ mpc = "loop" /\ mi = Len(marr)
    /\ kbd' = kbd \o ReturnKeys(mdir)
    /\ mpc' = "done"
    /\ UNCHANGED <<marr, mdir, mi, mseg, total_miis, notMii>>

\* arr as sel_code_rev builds it from a team whose Mii ids are below
\* 77 + total_miis: no entry, one entry with any index, or a second entry
\* for the first or the last Mii of the registry.
MiiArrays(total) ==
    {<<>>}
    \cup {<< <<a, 0>> >> : a \in 0..(total - 1)}
    \cup {<< <<a, 0>>, <<b, 1>> >> : a \in 0..(total - 1), b \in {0, total - 1}}

InitMiis ==
    /\ total_miis \in 0..MaxRegistry
    /\ marr \in MiiArrays(total_miis)
    /\ mdir \in {0, 1}
    /\ mi = 0 /\ mpc = "entry" /\ mseg = <<>> /\ kbd = <<>>
    /\ team1 = DefaultAway /\ team2 = DefaultHome
    /\ ValIdle /\ UiIdle /\ LuIdle /\ RunIdle /\ PatchIdle /\ AutoIdle /\ ClbIdle /\ ExeIdle

NextMiis ==
    \/ HandleMiisRaises
    \/ HandleMiisEnter
    \/ HandleMiisSelect
    \/ HandleMiisReturn

SpecMiis == InitMiis /\ [][NextMiis]_vars

-----------------------------------------------------------------------------
(* C8                                                                      *)

Count(seq, x) == Cardinality({n \in 1..Len(seq) : seq[n] = x})

\* The number of page advances in the presses made for one entry: every
\* page advance holds one confirm, the opening of the selector one and the
\* final selection one.
AdvancesIn(seg) == Count(seg, "a") - 2

\* Whether the four presses left, left, left, up follow the page advances.
AnchorIn(seg) ==
    LET from == Len(OpenSelector) + AdvancesIn(seg) * Len(PageAdvance)
    IN /\ Len(seg) >= from + 4
       /\ SubSeq(seg, from + 1, from + 4) = <<"l", "l", "l", "u">>

\* C8: for every entry handleMiis has processed, the anchor correction is
\* emitted exactly when idx // 10 is the last page (total_miis - 1) // 10 of
\* the registry, and idx // 10 page advances are made; with 10 Miis and
\* idx 9 the anchor fires, with 25 Miis and idx 9 it does not.
C8_AnchorOnLastPage ==
    (mpc = "loop" /\ mi > 0) =>
        LET idx == marr[mi][1]
        IN /\ AdvancesIn(mseg) = idx \div 10
           /\ AnchorIn(mseg) <=> (idx \div 10 = (total_miis - 1) \div 10)
           /\ (total_miis = 10 /\ idx = 9) => AnchorIn(mseg)
           /\ (total_miis = 25 /\ idx = 9) => ~AnchorIn(mseg)

\* The first example of the claim, reached: 10 Miis, idx 9, anchor emitted.
C8_WitnessFullPage ==
    /\ mpc = "loop" /\ mi = 1
    /\ total_miis = 10 /\ marr[1][1] = 9
    /\ AnchorIn(mseg)

-----------------------------------------------------------------------------
(* generate_whodeyy_code                                                   *)

\* Most Miis in the away team of the families below.
MaxPatchMiis == 2

\* w + n on 32 bits, for 0 <= n < 2^16.
PlusW(w, n) == W((w[1] + (w[2] + n) \div 65536) % 65536, (w[2] + n) % 65536)

\* a - b for two addresses less than 2^31 apart.
MinusW(a, b) == (a[1] - b[1]) * 65536 + (a[2] - b[2])

\* A word below 2^31 given as an integer.
WordOf(n) == W(n \div 65536, n % 65536)

HookAddress == W(\H8006, \Haed4)
HookWord == W(\H4bf9, \H7324)
PatchBase == W(\H8000, \H21f0)
MetadataAddress == W(\H8000, \H21f4)
ReturnAddress == W(\H8006, \Haed8)
HeaderWord == W(\HC206, \HAED4)
ZeroWord == W(0, 0)
TestWord == W(\H2C0E, 1)
TestBranchWordShort == W(\H4182, \H0098)
TestBranchWord == W(\H4182, \H009C)
AwayMarkerWord == W(\H39C0, 1)
TeamBranchWord == W(\H4800, \H0098)
HomeMarkerWord == W(\H39C0, 0)
Nop == W(\H6000, 0)

\* 0x39E00000 + n
LoadImmediate(n) == PlusW(W(\H39E0, 0), n)
\* 0x99E30001 + int(pos * 0x10)
StoreCharacter(slot) == PlusW(W(\H99E3, 1), slot * 16)
\* 0x99E3000C + int(pos * 0x10)
StoreFielding(slot) == PlusW(W(\H99E3, 12), slot * 16)

ChainSlotUncorrected(slot, miilist) == slot

\* while pos > 0 and pos <= len(miilist): pos = miilist[pos-1][1]
RECURSIVE ChainSlot(_, _)
ChainSlot(slot, miilist) ==
    IF slot > 0 /\ slot <= Len(miilist)
    THEN ChainSlot(miilist[slot][2], miilist)
    ELSE slot

MiiWordsOneFiller(player, miipos) ==
    <<Nop, LoadImmediate(player[3]), StoreFielding(miipos)>>

\* The words of a Mii: two fillers, the fielding position, its store at
\* the Mii counter.
MiiWords(player, miipos) ==
    <<Nop, Nop, LoadImmediate(player[3]), StoreFielding(miipos)>>

\* The words of a fixed character: id and fielding position, each stored at
\* the chain-corrected batting slot.
CharWords(player, miilist) ==
    LET slot == ChainSlot(player[2], miilist)
    IN <<LoadImmediate(player[1]), StoreCharacter(slot),
         LoadImmediate(player[3]), StoreFielding(slot)>>

\* The words of the players j, j + 1, ..., 9 of a team; miipos counts the
\* Miis met so far, from 1.
RECURSIVE TeamWordsFrom(_, _, _, _)
TeamWordsFrom(team, miilist, j, miipos) ==
    IF j > TeamSize THEN <<>>
    ELSE IF team[j][1] > 76
         THEN MiiWords(team[j], miipos)
              \o TeamWordsFrom(team, miilist, j + 1, miipos + 1)
         ELSE CharWords(team[j], miilist)
              \o TeamWordsFrom(team, miilist, j + 1, miipos)

TeamWords(team) == TeamWordsFrom(team, MiiList(team), 1, 1)

WriteWordsInPlace(start, words) ==
    [n \in 1..Len(words) |-> WriteWord(start, words[n])]

\* DMM.write_word(currLine, word); currLine += 4 for each word in turn.
WriteWords(start, words) ==
    [n \in 1..Len(words) |-> WriteWord(PlusW(start, 4 * (n - 1)), words[n])]

WholeCount(count) == count

\* int(countline / 2): the quotient of the true division, truncated; the
\* count is never negative.
HalfCount(count) == count \div 2

FinalBranchWordFromBase(at) == WordOf(MinusW(ReturnAddress, PatchBase) + \H48000000)

\* Line 445: 0x8006aed8 - currLine + 0x48000000, the word of the branch
\* back to the instruction after the hook point.
FinalBranchWord(at) == WordOf(MinusW(ReturnAddress, at) + \H48000000)

\* The calls of the step the compiler is at.
PatchCalls ==
    IF apc = "patch"
    THEN <<Hook, WriteWord(HookAddress, HookWord),
           WriteWord(PatchBase, HeaderWord),
           WriteWord(PlusW(PatchBase, 4), ZeroWord),
           WriteWord(PlusW(PatchBase, 8), TestWord),
           WriteWord(PlusW(PatchBase, 12), TestBranchWord)>>
    ELSE IF apc = "team1"
    THEN WriteWords(currLine, TeamWords(team1) \o <<AwayMarkerWord, TeamBranchWord>>)
    ELSE IF apc = "team2"
    THEN WriteWords(currLine, TeamWords(team2) \o <<HomeMarkerWord>>)
    ELSE IF apc = "pad" /\ countline % 4 # 3
    THEN <<WriteWord(currLine, Nop)>>
    ELSE IF apc = "pad"
    THEN <<WriteWord(currLine, FinalBranchWord(currLine)),
           WriteWord(MetadataAddress, WordOf(HalfCount(countline + 1))),
           UnHook>>
    ELSE <<>>

PatchMade(cs) ==
    /\ dmm' = dmm \o cs
    /\ hooked' = HookedAfter(hooked, cs, 1)

\* Lines 336-350: attach, the hook write, the two header words, the test
\* and its branch.
PatchBegin ==
    /\ apc = "patch"
    /\ PatchMade(PatchCalls)
    /\ currLine' = PlusW(PatchBase, 16)
    /\ countline' = 2
    /\ apc' = "team1"
    /\ UNCHANGED <<raised, notPatch>>

\* Lines 360-400: the away block, the away marker and the branch.
PatchTeam1 ==
    /\ apc = "team1"
    /\ PatchMade(PatchCalls)
    /\ currLine' = PlusW(currLine, 4 * Len(PatchCalls))
    /\ countline' = countline + Len(PatchCalls)
    /\ apc' = "team2"
    /\ UNCHANGED <<raised, notPatch>>

\* Lines 402-439: the home block and the home marker.
PatchTeam2 ==
    /\ apc = "team2"
    /\ PatchMade(PatchCalls)
    /\ currLine' = PlusW(currLine, 4 * Len(PatchCalls))
    /\ countline' = countline + Len(PatchCalls)
    /\ apc' = "pad"
    /\ UNCHANGED <<raised, notPatch>>

\* Lines 440-443: one pass of the padding loop.
PatchPad ==
    /\ apc = "pad" /\ countline % 4 # 3
    /\ PatchMade(PatchCalls)
    /\ currLine' = PlusW(currLine, 4)
    /\ countline' = countline + 1
    /\ UNCHANGED <<apc, raised, notPatch>>

\* Lines 445-449: the final branch, the metadata word, detach.
PatchEnd ==
    /\ apc = "pad" /\ countline % 4 = 3
    /\ PatchMade(PatchCalls)
    /\ currLine' = PlusW(currLine, 4)
    /\ countline' = countline + 1
    /\ apc' = "returned"
    /\ UNCHANGED <<raised, notPatch>>

\* A call to the memory engine raises: the calls of the step before it were
\* made, the exception leaves generate_whodeyy_code and its locals are gone.
PatchRaises ==
    /\ apc \in {"patch", "team1", "team2", "pad"}
    /\ \E n \in 0..(Len(PatchCalls) - 1) : PatchMade(SubSeq(PatchCalls, 1, n))
    /\ apc' = "raised"
    /\ raised' = "DMM"
    /\ UNCHANGED <<patchVars, notPatch>>

\* A team of nine Miis, batting and fielding in roster order.
AllMiiTeam == [j \in 1..TeamSize |-> <<BaseCharCount + j - 1, j - 1, j - 1>>]

\* Eight Miis, the batting orders 2, 3, ..., 8, 0: the one fixed character
\* bats second and its chain runs through every Mii.
LongChainTeam == LineupTeam(<<2, 3, 4, 5, 6, 7, 8, 0>>, "front")

\* Away teams: up to MaxPatchMiis Miis with any batting orders, at the
\* front or at the back of the roster, the team of nine Miis and the team
\* with the longest chain.
PatchAwayTeams ==
    {LineupTeam(b, layout) :
        b \in UNION {InjectiveSeqs(k, 0..(TeamSize - 1)) : k \in 0..MaxPatchMiis},
        layout \in {"front", "back"}}
    \cup {AllMiiTeam, LongChainTeam}

PatchHomeTeams == {DefaultHome, LineupTeam(<<1, 0>>, "back"), AllMiiTeam}

InitPatch ==
    /\ team1 \in PatchAwayTeams
    /\ team2 \in PatchHomeTeams
    /\ total_miis = TeamSize
    /\ stadium = <<0, 0>> /\ rules = <<9, 1, 1, 0>>
    /\ default_away_captain_id = 0 /\ default_home_captain_id = 1
    /\ auto_start_game = FALSE
    /\ hooked = FALSE /\ dmm = <<>> /\ apc = "patch" /\ raised = "none"
    /\ ValIdle /\ UiIdle /\ LuIdle /\ MiiIdle /\ PatchIdle /\ AutoIdle /\ ClbIdle /\ ExeIdle

NextPatch ==
    \/ PatchBegin
    \/ PatchTeam1
    \/ PatchTeam2
    \/ PatchPad
    \/ PatchEnd
    \/ PatchRaises

SpecPatch == InitPatch /\ [][NextPatch]_vars

-----------------------------------------------------------------------------
(* C5                                                                      *)

\* C5: whenever finalize or the code patch has returned or has been left by
\* an exception, the memory engine is detached: every attach is followed
\* by a detach on every exit path.
C5_DetachedOnExit == apc \in {"returned", "raised"} => ~hooked

-----------------------------------------------------------------------------
(* C9                                                                      *)

\* The place in the call log of the first word of the away block and of the
\* home block: after attach, the hook write and the four words before the
\* blocks; after the away block and its two words.
AwayBlockAt == 7
HomeBlockAt == AwayBlockAt + 4 * TeamSize + 2

\* The four calls for player j of the block starting at call number first
\* write four consecutive addresses; the third word loads the player's
\* fielding position and the fourth stores it; a fixed character's first
\* word loads its id, a Mii's first two words are fillers.
FourWordsFor(team, first, j) ==
    LET at == first + 4 * (j - 1)
    IN /\ \A n \in 0..3 :
            /\ dmm[at + n][1] = "write_word"
            /\ dmm[at + n][2] = W(\H8000, \H21f0 + 4 * (at + n - 3))
       /\ dmm[at + 2][3] = W(\H39E0, team[j][3])
       /\ dmm[at + 3][3][1] = \H99E3 /\ dmm[at + 3][3][2] % 16 = 12
       /\ IF team[j][1] >= BaseCharCount
          THEN dmm[at][3] = W(\H6000, 0) /\ dmm[at + 1][3] = W(\H6000, 0)
          ELSE dmm[at][3] = W(\H39E0, team[j][1])
               /\ dmm[at + 1][3][1] = \H99E3 /\ dmm[at + 1][3][2] % 16 = 1

\* C9: every player of either team, Mii or fixed character, gets exactly
\* four words, so each block is 36 words; the away block is followed by
\* the marker load and the branch, then the home block begins.
C9_FourWordsPerPlayer ==
    /\ apc \in {"team2", "pad", "returned"} =>
        /\ \A j \in 1..TeamSize : FourWordsFor(team1, AwayBlockAt, j)
        /\ dmm[AwayBlockAt + 36][3] = W(\H39C0, 1)
        /\ dmm[AwayBlockAt + 37][3] = W(\H4800, \H0098)
        /\ apc = "team2" => countline = 2 + 36 + 2
    /\ apc \in {"pad", "returned"} =>
        /\ \A j \in 1..TeamSize : FourWordsFor(team2, HomeBlockAt, j)
        /\ dmm[HomeBlockAt + 36][3] = W(\H39C0, 0)

\* A Mii-free away team and an away team with Miis, each compiled to the end.
C9_WitnessMiiFree ==
    /\ apc = "returned"
    /\ \A j \in 1..TeamSize : team1[j][1] < BaseCharCount
    /\ \E j \in 1..TeamSize : team2[j][1] >= BaseCharCount

-----------------------------------------------------------------------------
(* C10                                                                     *)

\* The calls that write an instruction of the patch: the words from the
\* test on, at PatchBase + 8 and above.
EmittedWrites ==
    {n \in 1..Len(dmm) :
        /\ dmm[n][1] = "write_word"
        /\ dmm[n][2][1] = \H8000
        /\ dmm[n][2][2] >= \H21f8}

\* C10: the word written to 0x800021f4 is the floor of half the number of
\* instructions emitted: test, branch, both blocks, both markers, the
\* branch between the teams, the padding and the final branch; it is the
\* last write of the patch, after every instruction.
C10_MetadataIsHalfCount ==
    apc = "returned" =>
        LET last == Len(dmm) - 1
            emitted == Cardinality(EmittedWrites)
        IN /\ dmm[Len(dmm)] = <<"un_hook">>
           /\ dmm[last] = <<"write_word", W(\H8000, \H21f4), W(0, emitted \div 2)>>
           /\ \A n \in EmittedWrites : n < last
           /\ \A n \in (HomeBlockAt + 37)..(last - 2) : dmm[n][3] = W(\H6000, 0)
           /\ emitted = 2 + 36 + 2 + 36 + 1 + (last - 2 - (HomeBlockAt + 36)) + 1
           /\ emitted % 4 = 0
           /\ countline = emitted
           /\ {5, 6, AwayBlockAt + 36, AwayBlockAt + 37, HomeBlockAt + 36, last - 1}
                \subseteq EmittedWrites

\* The patch compiled to the end for an away team with a Mii: 80
\* instructions, the metadata word 40.
C10_WitnessForty ==
    /\ apc = "returned"
    /\ \E j \in 1..TeamSize : team1[j][1] >= BaseCharCount
    /\ Len(dmm) > 2
    /\ dmm[Len(dmm) - 1][3] = W(0, 40)

-----------------------------------------------------------------------------
(* automate                                                                *)

\* Most Miis in the registry of the automate() runs below.
MaxRunMiis == 2

\* The padding words written from a count on: while countline % 4 != 3.
RECURSIVE PadWords(_)
PadWords(count) == IF count % 4 = 3 THEN <<>> ELSE <<Nop>> \o PadWords(count + 1)

\* Every call generate_whodeyy_code makes to the memory engine when none of
\* them raises.
WholePatch(t1, t2) ==
    LET body == <<TestWord, TestBranchWord>>
                \o TeamWords(t1) \o <<AwayMarkerWord, TeamBranchWord>>
                \o TeamWords(t2) \o <<HomeMarkerWord>>
        padded == body \o PadWords(Len(body))
        last == PlusW(PatchBase, 8 + 4 * Len(padded))
    IN <<Hook, WriteWord(HookAddress, HookWord),
         WriteWord(PatchBase, HeaderWord),
         WriteWord(PlusW(PatchBase, 4), ZeroWord)>>
       \o WriteWords(PlusW(PatchBase, 8), padded)
       \o <<WriteWord(last, FinalBranchWord(last)),
            WriteWord(MetadataAddress, WordOf(HalfCount(Len(padded) + 1))),
            UnHook>>

\* t1miis, t2miis of sel_code_rev: [id - 77, batting order] of each Mii.
SelCodeArr(team) ==
    [n \in 1..Len(MiiList(team)) |->
        <<MiiList(team)[n][1] - 77, MiiList(team)[n][2]>>]

\* The presses of the for loop of handleMiis from entry n on.
RECURSIVE SelectKeysFrom(_, _, _)
SelectKeysFrom(arr, total, n) ==
    IF n > Len(arr) THEN <<>>
    ELSE SelectMiiKeys(arr[n][1], total) \o SelectKeysFrom(arr, total, n + 1)

\* Every press of one handleMiis call that does not raise.
HandleMiisKeys(arr, dir, total) == SelectKeysFrom(arr, total, 1) \o ReturnKeys(dir)

\* Every press of the loop of lineup_code_rev from the state (mlist, pos, i)
\* on, and of the move to column 8 after it.
RECURSIVE LineupKeysFrom(_, _, _)
LineupKeysFrom(ml, p, idx) ==
    IF idx >= Len(ml) THEN MoveKeys(p, 8)
    ELSE LET targ == ml[idx + 1][2]
         IN IterationKeys(ml, p, idx)
            \o (IF SwapsInModel(targ, idx, ml)
                THEN LineupKeysFrom([ml EXCEPT ![idx + 1] = ml[targ], ![targ] = ml[idx + 1]],
                                    targ, idx)
                ELSE LineupKeysFrom(ml, targ, idx + 1))

LineupKeys(team) == LineupKeysFrom(MiiList(team), 0, 0)

\* A press_* call as a capability call.
KeyCalls(ks) == [n \in 1..Len(ks) |-> <<"key", ks[n]>>]

\* startGame: q and k pressed together.
StartGameCalls ==
    << <<"kb.press", "q">>, <<"kb.press", "k">>,
       <<"kb.release", "k">>, <<"kb.release", "q">> >>

NavigateKeys == execute(<<"a", "w", "a", "w", "a", "w", "w", "w", "a", "a", "w", "w", "w", "w", "w", "w", "w", "w", "r", "r", "a", "w", "w", "w", "w", "d">>)
ConfirmKeys == <<"a">> \o execute(<<"w", "w", "u", "l", "u", "r">>)
BetweenKeys == execute(<<"d", "r", "u", "l", "d", "r">>)
AfterKeys == execute(<<"u", "r", "u", "a", "w">>)

RolledBack(cs, n) == <<>>

\* The calls made before call number n + 1 of cs raises: they were made and
\* stay made.
Committed(cs, n) == SubSeq(cs, 1, n)

PhaseAfterFailureRetried(phase) == phase

\* An exception raised in a callee of automate() is handled nowhere: the
\* run is over.
PhaseAfterFailure(phase) == "raised"

PhaseAfterInputsSkipping == "start"

\* The statement after execute("uruaw"): the second finalize().
PhaseAfterInputs == "finalize_again"

AutoPresses(ks) ==
    /\ out' = out \o KeyCalls(ks)
    /\ kbd' = kbd \o ks
    /\ UNCHANGED <<dmm, hooked>>

AutoMemory(cs) ==
    /\ out' = out \o cs
    /\ dmm' = dmm \o cs
    /\ hooked' = HookedAfter(hooked, cs, 1)
    /\ UNCHANGED kbd

\* Lines 211-214: every window whose title matches is activated.
AutomateFocus ==
    /\ apc = "focus"
    /\ \A n \in 1..Len(windows) : windows[n] = "ok"
    /\ out' = out \o [n \in 1..Len(windows) |-> <<"activate", n>>]
    /\ apc' = "navigate"
    /\ UNCHANGED <<dmm, hooked, kbd, raised, notAuto>>

\* f.activate() raises for a window that cannot be activated; the loop has
\* no handler.
AutomateFocusRaises ==
    /\ apc = "focus"
    /\ \E n \in 1..Len(windows) :
          /\ windows[n] = "fails"
          /\ \A m \in 1..(n - 1) : windows[m] = "ok"
          /\ out' = out \o [m \in 1..(n - 1) |-> <<"activate", m>>]
    /\ apc' = "raised"
    /\ raised' = "PyGetWindowException"
    /\ UNCHANGED <<dmm, hooked, kbd, notAuto>>

\* Line 216.
AutomateNavigate ==
    /\ apc = "navigate"
    /\ AutoPresses(NavigateKeys)
    /\ apc' = "finalize"
    /\ UNCHANGED <<raised, notAuto>>

\* Lines 217 and 229: finalize().
AutomateFinalize ==
    /\ apc \in {"finalize", "finalize_again"}
    /\ AutoMemory(FinalizeCalls(team1, team2, stadium, rules,
                                default_away_captain_id, default_home_captain_id))
    /\ apc' = IF apc = "finalize" THEN "patch" ELSE "start"
    /\ UNCHANGED <<raised, notAuto>>

\* Line 218: generate_whodeyy_code().
AutomatePatch ==
    /\ apc = "patch"
    /\ AutoMemory(WholePatch(team1, team2))
    /\ apc' = "select_away"
    /\ UNCHANGED <<raised, notAuto>>

\* A call to the memory engine raises in finalize() or in
\* generate_whodeyy_code(); neither they nor automate() handle it.
AutomateMemoryRaises ==
    /\ apc \in {"finalize", "patch", "finalize_again"}
    /\ LET cs == IF apc = "patch" THEN WholePatch(team1, team2)
                 ELSE FinalizeCalls(team1, team2, stadium, rules,
                                    default_away_captain_id, default_home_captain_id)
       IN \E n \in 0..(Len(cs) - 1) : AutoMemory(Committed(cs, n))
    /\ apc' = PhaseAfterFailure(apc)
    /\ raised' = "DMM"
    /\ UNCHANGED notAuto

\* Lines 235-243: handleMiis(t1miis, 0), then handleMiis(t2miis, 1).
AutomateSelect ==
    /\ apc \in {"select_away", "select_home"}
    /\ total_miis # 0
    /\ IF apc = "select_away"
       THEN AutoPresses(HandleMiisKeys(SelCodeArr(team1), 0, total_miis))
       ELSE AutoPresses(HandleMiisKeys(SelCodeArr(team2), 1, total_miis))
    /\ apc' = IF apc = "select_away" THEN "select_home" ELSE "confirm"
    /\ UNCHANGED <<raised, notAuto>>

\* Lines 248-256: with total_miis = 0 handleMiis raises ValueError before
\* any press.
AutomateSelectRaises ==
    /\ apc \in {"select_away", "select_home"}
    /\ total_miis = 0
    /\ apc' = "raised"
    /\ raised' = "ValueError"
    /\ UNCHANGED <<out, dmm, hooked, kbd, notAuto>>

\* Lines 220-222: press_a(), execute("wwulur").
AutomateConfirm ==
    /\ apc = "confirm"
    /\ AutoPresses(ConfirmKeys)
    /\ apc' = "lineup_away"
    /\ UNCHANGED <<raised, notAuto>>

\* Lines 223 and 225: lineup_code_rev(team1), lineup_code_rev(team2).
AutomateLineup ==
    /\ apc \in {"lineup_away", "lineup_home"}
    /\ IF apc = "lineup_away"
       THEN AutoPresses(LineupKeys(team1))
       ELSE AutoPresses(LineupKeys(team2))
    /\ apc' = IF apc = "lineup_away" THEN "between" ELSE "after"
    /\ UNCHANGED <<raised, notAuto>>

\* Line 224: execute("druldr").
AutomateBetween ==
    /\ apc = "between"
    /\ AutoPresses(BetweenKeys)
    /\ apc' = "lineup_home"
    /\ UNCHANGED <<raised, notAuto>>

\* Line 226: execute("uruaw").
AutomateAfter ==
    /\ apc = "after"
    /\ AutoPresses(AfterKeys)
    /\ apc' = PhaseAfterInputs
    /\ UNCHANGED <<raised, notAuto>>

StartInputsAlways(enabled) == StartGameCalls

\* Lines 231-232: if options.auto_start_game: self.startGame().
StartInputs(enabled) == IF enabled THEN StartGameCalls ELSE <<>>

\* Lines 231-232: startGame() if the option is set; automate() returns.
AutomateStart ==
    /\ apc = "start"
    /\ out' = out \o StartInputs(auto_start_game)
    /\ apc' = "returned"
    /\ UNCHANGED <<dmm, hooked, kbd, raised, notAuto>>

\* The teams of a run: valid lineups whose Miis are in the registry.
RunAwayTeams(total) ==
    {DefaultAway}
    \cup {LineupTeam(b, "front") :
            b \in UNION {InjectiveSeqs(k, 0..2) : k \in 1..total}}

RunHomeTeams(total) ==
    {DefaultHome} \cup (IF total >= 2 THEN {LineupTeam(<<1, 0>>, "back")} ELSE {})

InitAutomate ==
    /\ total_miis \in 0..MaxRunMiis
    /\ team1 \in RunAwayTeams(total_miis)
    /\ team2 \in RunHomeTeams(total_miis)
    /\ windows \in {<<>>, <<"ok">>, <<"fails">>, <<"ok", "fails">>}
    /\ auto_start_game \in BOOLEAN
    /\ stadium = <<0, 0>> /\ rules = <<9, 1, 1, 0>>
    /\ default_away_captain_id = 0 /\ default_home_captain_id = 1
    /\ hooked = FALSE /\ dmm = <<>> /\ apc = "focus" /\ raised = "none"
    /\ out = <<>>
    /\ ValIdle /\ UiIdle /\ LuIdle /\ MiiIdle /\ PatchIdle /\ ClbIdle /\ ExeIdle

NextAutomate ==
    \/ AutomateFocus
    \/ AutomateFocusRaises
    \/ AutomateNavigate
    \/ AutomateFinalize
    \/ AutomatePatch
    \/ AutomateMemoryRaises
    \/ AutomateSelect
    \/ AutomateSelectRaises
    \/ AutomateConfirm
    \/ AutomateLineup
    \/ AutomateBetween
    \/ AutomateAfter
    \/ AutomateStart

SpecAutomate == InitAutomate /\ [][NextAutomate]_vars

-----------------------------------------------------------------------------
(* C11                                                                     *)

\* The places in the log of the first write of a finalize pass, the stadium
\* byte at 0x811f769d.
PassStarts ==
    {n \in 1..Len(out) : out[n][1] = "write_byte" /\ out[n][2] = W(\H811f, \H769d)}

\* The ten calls of the pass whose first write is at place n.
PassAt(n) == SubSeq(out, n - 1, n + 8)

\* C11: a run of automate() that returns has made exactly two finalize
\* passes; the first ends before the first word of the patch is written,
\* the second begins after every write of the patch and every press of the
\* Mii selection and of the reordering, and ends before the start-game
\* input; both passes write the same bytes.
C11_FinalizeTwice ==
    apc = "returned" =>
        /\ Cardinality(PassStarts) = 2
        /\ \E a \in PassStarts, b \in PassStarts :
              /\ a < b
              /\ PassAt(a) = PassAt(b)
              /\ out[a - 1] = <<"hook">>
              /\ \A n \in a..(a + 8) : out[n][1] = "write_byte"
              /\ \A n \in 1..Len(out) :
                    /\ out[n][1] = "write_byte" => n \in a..(a + 8) \cup b..(b + 8)
                    /\ out[n][1] = "write_word" => a + 8 < n /\ n < b - 1
                    /\ out[n][1] = "key" => n < b - 1
                    /\ out[n][1] \in {"kb.press", "kb.release"} => n > b + 8
              /\ \E n \in (a + 9)..(b - 2) : out[n][1] = "key"

\* A run with Miis in the away team and the start-game option set that
\* has returned.
C11_WitnessFullRun ==
    /\ apc = "returned"
    /\ auto_start_game
    /\ Len(MiiList(team1)) = 2
    /\ \E n \in 1..Len(out) : out[n] = <<"kb.press", "q">>

-----------------------------------------------------------------------------
(* C12                                                                     *)

\* The calls of a run of automate() in which no call raises, up to the
\* second finalize pass.
UnfailedRun ==
    [n \in 1..Len(windows) |-> <<"activate", n>>]
    \o KeyCalls(NavigateKeys)
    \o FinalizeCalls(team1, team2, stadium, rules,
                     default_away_captain_id, default_home_captain_id)
    \o WholePatch(team1, team2)
    \o KeyCalls(HandleMiisKeys(SelCodeArr(team1), 0, total_miis)
                \o HandleMiisKeys(SelCodeArr(team2), 1, total_miis)
                \o ConfirmKeys \o LineupKeys(team1) \o BetweenKeys
                \o LineupKeys(team2) \o AfterKeys)
    \o FinalizeCalls(team1, team2, stadium, rules,
                     default_away_captain_id, default_home_captain_id)

\* After a failed memory call the log is the unfailed run cut before a
\* memory call: everything before the failing call was made and is kept,
\* the failing call itself is not in the log.
CutAtMemoryCall ==
    \E run \in {UnfailedRun} :
        /\ Len(out) < Len(run)
        /\ out = SubSeq(run, 1, Len(out))
        /\ run[Len(out) + 1][1] \in {"hook", "write_byte", "write_word", "un_hook"}

\* C12: a failed attach or memory write ends the run: the calls before it
\* stay made, in particular the hook word once written, and no call at all
\* is made after it, neither a retry nor a press nor a write.
C12_FailureEndsRun ==
    /\ [](raised = "DMM" => apc = "raised" /\ CutAtMemoryCall)
    /\ [][raised = "DMM" => UNCHANGED <<out, dmm, kbd, hooked>>]_vars

\* A write of the patch after the hook word has failed: the hook word is in
\* place, the metadata word was never written.
C12_WitnessHookWordLeft ==
    /\ raised = "DMM"
    /\ \E n \in 1..Len(out) : out[n] = <<"write_word", W(\H8006, \Haed4), W(\H4bf9, \H7324)>>
    /\ out[Len(out)][1] = "write_word"
    /\ hooked

-----------------------------------------------------------------------------
(* C13                                                                     *)

\* C13: a window that is missing or cannot be activated never aborts the
\* run.
C13_FocusFailureNotFatal == ~(apc = "raised" /\ raised = "PyGetWindowException")

-----------------------------------------------------------------------------
(* C14                                                                     *)

Mirrored(ks) ==
    [n \in 1..Len(ks) |-> IF ks[n] = "u" THEN "d" ELSE IF ks[n] = "d" THEN "u" ELSE ks[n]]

\* The presses handleMiis made after the presses of its for loop.
ReturnPart == SubSeq(kbd, Len(SelectKeysFrom(marr, total_miis, 1)) + 1, Len(kbd))

\* C14: when handleMiis has returned, the presses after its loop are five:
\* for the away team up, up, confirm, down, down, for the home team the
\* same with up and down exchanged.
C14_ReturnFiveSteps ==
    mpc = "done" =>
        /\ Len(ReturnPart) = 5
        /\ ReturnPart = IF mdir = 0 THEN <<"u", "u", "a", "d", "d">>
                        ELSE Mirrored(<<"u", "u", "a", "d", "d">>)

-----------------------------------------------------------------------------
(* C16                                                                     *)

\* C16: a run in which no capability call failed is not aborted: it goes on
\* to the final finalize pass and returns.
C16_NoAbortWithoutFailure ==
    apc = "raised" => raised \in {"DMM", "PyGetWindowException"}

-----------------------------------------------------------------------------
(* clb_loader: autoteam_to_clb_format, convert_clb_lineup                  *)

\* charList[0..8], which CHARACTER_MAP maps back to 0..8.
BaseNames ==
    <<"Mario", "Luigi", "Donkey Kong", "Diddy Kong", "Peach", "Daisy",
      "Green Yoshi", "Baby Mario", "Baby Luigi">>

\* str.lower() on the names of the model.
LowerOf ==
    "Mario" :> "mario" @@ "Luigi" :> "luigi" @@ "Donkey Kong" :> "donkey kong"
    @@ "Diddy Kong" :> "diddy kong" @@ "Peach" :> "peach" @@ "Daisy" :> "daisy"
    @@ "Green Yoshi" :> "green yoshi" @@ "Baby Mario" :> "baby mario"
    @@ "Baby Luigi" :> "baby luigi" @@ "Ann" :> "ann" @@ "ann" :> "ann"
    @@ "Bob" :> "bob"

\* str.replace(" ", "-") on the lowered names of the model.
DashedOf ==
    "mario" :> "mario" @@ "luigi" :> "luigi" @@ "donkey kong" :> "donkey-kong"
    @@ "diddy kong" :> "diddy-kong" @@ "peach" :> "peach" @@ "daisy" :> "daisy"
    @@ "green yoshi" :> "green-yoshi" @@ "baby mario" :> "baby-mario"
    @@ "baby luigi" :> "baby-luigi" @@ "ann" :> "ann" @@ "bob" :> "bob"

POSITION_NAMES == <<"P", "C", "1B", "2B", "3B", "SS", "LF", "CF", "RF">>

\* POSITION_MAP[name]
POSITION_MAP(name) == (CHOOSE n \in 1..9 : POSITION_NAMES[n] = name) - 1

\* CHARACTER_MAP, as the list of <<name, index>> it holds for the names of
\* the model; <<>> for a name that is no key.
CHARACTER_MAP(name) ==
    IF \E n \in 1..Len(BaseNames) : BaseNames[n] = name
    THEN <<(CHOOSE n \in 1..Len(BaseNames) : BaseNames[n] = name) - 1>>
    ELSE <<>>

\* char_list[char_id], or "Unknown_<id>"; char_list = charList + Mii names.
CharName(char_id, miis) ==
    IF char_id < Len(BaseNames) THEN BaseNames[char_id + 1]
    ELSE IF char_id >= BaseCharCount /\ char_id - BaseCharCount < Len(miis)
    THEN miis[char_id - BaseCharCount + 1]
    ELSE "Unknown"

\* The player object of autoteam_to_clb_format: id, name, databaseId, isMii.
PlayerObject(char_id, miis) ==
    LET char_name == CharName(char_id, miis)
        is_mii == char_id >= BaseCharCount
    IN [id |-> DashedOf[LowerOf[char_name]], name |-> char_name,
        databaseId |-> IF is_mii THEN "Mii" ELSE char_name, isMii |-> is_mii]

\* roster[key] = player on a dict kept as the list of its items in
\* insertion order.
DictPut(items, key, val) ==
    IF \E n \in 1..Len(items) : items[n][1] = key
    THEN [n \in 1..Len(items) |-> IF items[n][1] = key THEN <<key, val>> ELSE items[n]]
    ELSE Append(items, <<key, val>>)

\* The loop of autoteam_to_clb_format from player n on.  An empty batting
\* slot (None) is <<>>, a filled one <<player>>.
RECURSIVE ClbFormatFrom(_, _, _, _, _)
ClbFormatFrom(team, miis, n, roster, batting) ==
    IF n > Len(team) THEN [roster |-> roster, battingOrder |-> batting]
    ELSE LET player == PlayerObject(team[n][1], miis)
             pos_name == IF team[n][3] \in 0..8 THEN POSITION_NAMES[team[n][3] + 1] ELSE "P"
         IN ClbFormatFrom(team, miis, n + 1,
                DictPut(roster, pos_name, player),
                IF team[n][2] \in 0..8
                THEN [batting EXCEPT ![team[n][2] + 1] = <<player>>]
                ELSE batting)

autoteam_to_clb_format(team, miis) ==
    ClbFormatFrom(team, miis, 1, <<>>, [n \in 1..9 |-> <<>>])

\* resolve_character_id: <<id>>, or <<>> for None.
resolve_character_id(player, miis) ==
    IF player.isMii
    THEN LET hits == {n \in 1..Len(miis) : LowerOf[miis[n]] = LowerOf[player.name]}
         IN IF hits = {} THEN <<>>
            ELSE <<BaseCharCount + (CHOOSE n \in hits : \A m \in hits : n <= m) - 1>>
    ELSE CHARACTER_MAP(player.databaseId)

\* position_lookup.get(player_id): the position of the last roster item
\* with that player id; <<>> for None.
PositionLookup(roster, player_id) ==
    LET hits == {n \in 1..Len(roster) : roster[n][2].id = player_id}
    IN IF hits = {} THEN <<>>
       ELSE <<POSITION_MAP(roster[CHOOSE n \in hits : \A m \in hits : m <= n][1])>>

\* The loop over the batting order from entry n on.
RECURSIVE ConvertFrom(_, _, _)
ConvertFrom(data, miis, n) ==
    IF n > Len(data.battingOrder) THEN <<>>
    ELSE LET slot == data.battingOrder[n]
         IN (IF slot = <<>> THEN <<>>
             ELSE LET player == slot[1]
                      char_id == resolve_character_id(player, miis)
                      field_pos == PositionLookup(data.roster, player.id)
                  IN IF player.id = "" \/ char_id = <<>> \/ field_pos = <<>>
                     THEN <<>>
                     ELSE << <<char_id[1], n - 1, field_pos[1]>> >>)
            \o ConvertFrom(data, miis, n + 1)

\* convert_clb_lineup: the team, or <<>> for None.
convert_clb_lineup(data, miis) == ConvertFrom(data, miis, 1)

\* save_clb_lineup: the team is converted and written; json.dump and
\* json.load keep strings, booleans, None, lists and the order of dict items.
SaveLineup ==
    /\ fpc = "team"
    /\ clb_data' = autoteam_to_clb_format(team_roster, mii_list)
    /\ fpc' = "saved"
    /\ UNCHANGED <<team_roster, mii_list, reloaded, notClb>>

\* load_clb_saves: the file is read and converted with the same Mii list.
LoadLineup ==
    /\ fpc = "saved"
    /\ reloaded' = convert_clb_lineup(clb_data, mii_list)
    /\ fpc' = "loaded"
    /\ UNCHANGED <<team_roster, mii_list, clb_data, notClb>>

IdentityOrder == [n \in 1..TeamSize |-> n - 1]
SwappedOrder == [n \in 1..TeamSize |-> IF n = 1 THEN 1 ELSE IF n = 2 THEN 0 ELSE n - 1]
ReversedOrder == [n \in 1..TeamSize |-> TeamSize - n]
SampleOrders == {IdentityOrder, SwappedOrder, ReversedOrder}

\* The character ids of the teams saved: nine base characters, with the
\* first one or two replaced by Miis of the registry.
SampleIds(miis) ==
    {[n \in 1..TeamSize |-> IF n <= k THEN BaseCharCount + n - 1 ELSE n - 1] :
        k \in 0..Len(miis)}

\* Valid teams as saveTeam builds them: players in the order of the entry
\* boxes, batting order and fielding position by where the name stands in
\* the batting and the fielding boxes.
SavedTeams(miis) ==
    {[n \in 1..TeamSize |-> <<ids[n], bat[n], fld[n]>>] :
        ids \in SampleIds(miis), bat \in SampleOrders, fld \in SampleOrders}

InitClb ==
    /\ mii_list \in {<<>>, <<"Ann">>, <<"Ann", "Bob">>, <<"Bob", "Ann">>}
    /\ team_roster \in SavedTeams(mii_list)
    /\ clb_data = <<>> /\ reloaded = <<>> /\ fpc = "team"
    /\ ValIdle /\ OrcIdle /\ UiIdle /\ LuIdle /\ RunIdle /\ MiiIdle /\ PatchIdle /\ AutoIdle /\ ExeIdle

NextClb ==
    \/ SaveLineup
    \/ LoadLineup

SpecClb == InitClb /\ [][NextClb]_vars

-----------------------------------------------------------------------------
(* C15                                                                     *)

\* C15: a valid team that was saved and reloaded with the same character
\* and Mii lists is the team that was saved: same players in the same
\* order, same ids, batting orders and fielding positions.
C15_RoundTripEqual == fpc = "loaded" => reloaded = team_roster

-----------------------------------------------------------------------------
(* The compiler's slots composed with lineup_code_rev                      *)

\* The slot the compiler's fielding store of player j targets: the store
\* word is 0x99E3000C + slot * 0x10.
FieldingSlot(team, j) == (TeamWords(team)[4 * j][2] - 12) \div 16

\* The columns of the edit screen as the patch fills them: column c holds
\* the player whose stores target slot c, 0 if no store targets it.
CompilerCols(team) ==
    LET words == TeamWords(team)
        slot == [j \in 1..TeamSize |-> (words[4 * j][2] - 12) \div 16]
    IN [c \in 1..TeamSize |->
           IF \E j \in 1..TeamSize : slot[j] = c - 1
           THEN CHOOSE j \in 1..TeamSize : slot[j] = c - 1
           ELSE 0]

InitCompose ==
    /\ lteam \in LineupTeams \cup {LongChainTeam, AllMiiTeam}
    /\ mlist = <<>> /\ pos = 0 /\ i = 0 /\ lpc = "start"
    /\ iters = 0 /\ swaps = 0 /\ keys = <<>>
    /\ widget = [cols |-> CompilerCols(lteam), cursor |-> 0, held |-> -1]
    /\ ValIdle /\ OrcIdle /\ UiIdle /\ RunIdle /\ MiiIdle /\ PatchIdle /\ AutoIdle /\ ClbIdle /\ ExeIdle

SpecCompose == InitCompose /\ [][NextLineup]_vars

-----------------------------------------------------------------------------
(* C17                                                                     *)

\* C17: after the patch has placed the players and lineup_code_rev has
\* made its swaps, every player of the team, Mii or fixed character, is in
\* the column of its own batting order.
C17_EveryPlayerAtBattingOrder ==
    lpc = "done" =>
        \A j \in 1..TeamSize : widget.cols[lteam[j][2] + 1] = j

-----------------------------------------------------------------------------
(* C18, C19                                                                *)

\* The slot of the fielding store written for player j of the block that
\* starts at call number first.
StoredSlot(first, j) == (dmm[first + 4 * (j - 1) + 3][3][2] - 12) \div 16

\* C18: the slots of the nine fielding stores of a block are the nine
\* slots 0..8, each once.
C18_SlotsArePermutation ==
    /\ apc \in {"team2", "pad", "returned"} =>
          {StoredSlot(AwayBlockAt, j) : j \in 1..TeamSize} = 0..(TeamSize - 1)
    /\ apc \in {"pad", "returned"} =>
          {StoredSlot(HomeBlockAt, j) : j \in 1..TeamSize} = 0..(TeamSize - 1)

\* The batting order of the p-th Mii of the team, in roster order.
BattingOfMii(team, p) == team[MiiIndices(team, 1)[p]][2]

\* One replacement of the position, if it lies in 1..miiCount.
Replaced(team, p) ==
    IF 1 <= p /\ p <= Len(MiiIndices(team, 1)) THEN BattingOfMii(team, p) ELSE p

\* The position after n replacements.
RECURSIVE ReplacedTimes(_, _, _)
ReplacedTimes(team, p, n) ==
    IF n = 0 THEN p ELSE ReplacedTimes(team, Replaced(team, p), n - 1)

\* The words of the fixed character j in the block starting at call number
\* first: id and fielding position are stored at 0x01 and 0x0C of one slot
\* p, the batting order after the replacements have run out.
StoredAtCorrectedSlot(team, first, j) ==
    LET at == first + 4 * (j - 1)
        p == ReplacedTimes(team, team[j][2], TeamSize)
    IN /\ Replaced(team, p) = p
       /\ dmm[at][3] = W(\H39E0, team[j][1])
       /\ dmm[at + 1][3] = W(\H99E3, p * 16 + 1)
       /\ dmm[at + 2][3] = W(\H39E0, team[j][3])
       /\ dmm[at + 3][3] = W(\H99E3, p * 16 + 12)

\* C19: every fixed character of either team has its id and its fielding
\* position stored at the same slot p, reached from its batting order by
\* replacing p with the batting order of the p-th Mii while 1 <= p <= miiCount.
C19_FixedAtCorrectedSlot ==
    /\ apc \in {"team2", "pad", "returned"} =>
          \A j \in 1..TeamSize :
              team1[j][1] < BaseCharCount => StoredAtCorrectedSlot(team1, AwayBlockAt, j)
    /\ apc \in {"pad", "returned"} =>
          \A j \in 1..TeamSize :
              team2[j][1] < BaseCharCount => StoredAtCorrectedSlot(team2, HomeBlockAt, j)

\* Two replacements: with the Miis batting 2 and 0 the fixed character
\* batting 1 goes to slot 2 and from there to slot 0; the away block is
\* written.
C19_WitnessTwoReplacements ==
    /\ apc = "returned"
    /\ team1 = LineupTeam(<<2, 0>>, "front")
    /\ \E j \in 1..TeamSize :
          /\ team1[j][2] = 1
          /\ dmm[AwayBlockAt + 4 * (j - 1) + 1][3] = W(\H99E3, 1)

-----------------------------------------------------------------------------
(* The position-correction loop of generate_whodeyy_code, step by step     *)

\* Most Miis in the teams of the family below.
MaxChainMiis == 3

ChainNextStays(p, miilist) == p

\* pos = miilist[pos-1][1]
ChainNext(p, miilist) == miilist[p][2]

\* The team loop is at player i, a Mii: no correction, the loop goes on.
ChainSkipMii ==
    /\ lpc = "player" /\ i < TeamSize
    /\ lteam[i + 1][1] > 76
    /\ i' = i + 1
    /\ UNCHANGED <<lteam, mlist, pos, lpc, iters, swaps, keys, widget, notLu>>

\* The team loop is at player i, a fixed character: pos = team[i][1].
ChainEnter ==
    /\ lpc = "player" /\ i < TeamSize
    /\ ~(lteam[i + 1][1] > 76)
    /\ pos' = lteam[i + 1][2]
    /\ iters' = 0
    /\ lpc' = "while"
    /\ UNCHANGED <<lteam, mlist, i, swaps, keys, widget, notLu>>

\* One pass of the while loop.
ChainFollow ==
    /\ lpc = "while"
    /\ pos > 0 /\ pos <= Len(mlist)
    /\ pos' = ChainNext(pos, mlist)
    /\ iters' = iters + 1
    /\ UNCHANGED <<lteam, mlist, i, lpc, swaps, keys, widget, notLu>>

\* The while loop ends; the four words of the player are written with pos.
ChainLeave ==
    /\ lpc = "while"
    /\ ~(pos > 0 /\ pos <= Len(mlist))
    /\ lpc' = "player"
    /\ i' = i + 1
    /\ UNCHANGED <<lteam, mlist, pos, iters, swaps, keys, widget, notLu>>

\* The team loop has passed the ninth player.
ChainDone ==
    /\ lpc = "player" /\ i = TeamSize
    /\ lpc' = "done"
    /\ UNCHANGED <<lteam, mlist, pos, i, iters, swaps, keys, widget, notLu>>

\* Valid teams: up to MaxChainMiis Miis with any batting orders, at the
\* front or at the back of the roster, and the team with the longest chain.
ChainTeams ==
    {LineupTeam(b, layout) :
        b \in UNION {InjectiveSeqs(k, 0..(TeamSize - 1)) : k \in 0..MaxChainMiis},
        layout \in {"front", "back"}}
    \cup {LongChainTeam}

InitChain ==
    /\ lteam \in ChainTeams
    /\ mlist = MiiList(lteam)
    /\ pos = 0 /\ i = 0 /\ lpc = "player"
    /\ iters = 0 /\ swaps = 0 /\ keys = <<>>
    /\ widget = NoWidget
    /\ ValIdle /\ OrcIdle /\ UiIdle /\ RunIdle /\ MiiIdle /\ PatchIdle /\ AutoIdle /\ ClbIdle /\ ExeIdle

NextChain ==
    \/ ChainSkipMii
    \/ ChainEnter
    \/ ChainFollow
    \/ ChainLeave
    \/ ChainDone

\* generate_whodeyy_code runs on one thread: a step that can be taken is
\* taken.
SpecChain == InitChain /\ [][NextChain]_vars /\ WF_vars(NextChain)

-----------------------------------------------------------------------------
(* C20                                                                     *)

\* While the loop runs it has made at most miiCount passes, so it visits no
\* Mii twice; once it has ended for a fixed character, the position is
\* outside 1..miiCount.
ChainBounded ==
    /\ lpc = "while" => iters <= Len(mlist)
    /\ (lpc \in {"player", "done"} /\ i > 0 /\ ~(lteam[i][1] > 76)) =>
          ~(pos >= 1 /\ pos <= Len(mlist))

\* C20: for every valid team the position-correction loop of every fixed
\* character terminates without cycling and ends outside [1, miiCount].
C20_ChainTerminates == []ChainBounded /\ <>(lpc = "done")

\* The longest chain: eight passes for the one fixed character of the
\* team, ended at slot 0.
C20_WitnessEightPasses ==
    /\ lpc = "done"
    /\ lteam = LongChainTeam
    /\ iters = 8 /\ pos = 0

-----------------------------------------------------------------------------
(* C21                                                                     *)

\* For every slot j >= i of the local model, widget column j + 1 holds the
\* player mlist[j].
MirrorsWidget ==
    lpc = "loop" =>
        \A j \in i..(Len(mlist) - 1) :
            /\ widget.cols[j + 2] # 0
            /\ lteam[widget.cols[j + 2]] = mlist[j + 1]

\* An iteration exchanges mlist[i] and mlist[targ-1] exactly when targ > i+1
\* and targ <= len(mlist); the columns i+1 and targ of the widget then both
\* held Miis that were not settled, and i stays; otherwise mlist stays and
\* i advances.
SwapMirrorsDrop ==
    (lpc = "loop" /\ i < Len(mlist) /\ lpc' = "loop") =>
        LET targ == mlist[i + 1][2]
        IN IF targ > i + 1 /\ targ <= Len(mlist)
           THEN /\ mlist' = [mlist EXCEPT ![i + 1] = mlist[targ], ![targ] = mlist[i + 1]]
                /\ i' = i
                /\ widget'.cols[i + 2] = widget.cols[targ + 1]
                /\ widget'.cols[targ + 1] = widget.cols[i + 2]
                /\ IsMii(lteam[widget.cols[targ + 1]])
           ELSE mlist' = mlist /\ i' = i + 1

\* C21: at the start of every iteration the local model mirrors the widget
\* for all slots not yet settled, and the swap in the model is made exactly
\* when the drop exchanged two Miis not yet settled, without advancing i.
C21_ModelMirrorsWidget == []MirrorsWidget /\ [][SwapMirrorsDrop]_vars

\* A swap was made in the model and the loop is at a later iteration.
C21_WitnessAfterSwap ==
    /\ lpc = "loop" /\ swaps > 0 /\ i < Len(mlist)
    /\ lteam[widget.cols[i + 2]] = mlist[i + 1]
    /\ mlist # MiiList(lteam)

-----------------------------------------------------------------------------
(* C22, C23                                                                *)

\* The belief cursor pos after the first n presses of the run: every
\* press_right is followed by pos += 1, every press_left by pos -= 1.
BeliefAfter(n) ==
    Cardinality({m \in 1..n : keys[m] = "r"}) - Cardinality({m \in 1..n : keys[m] = "l"})

C23_EndsAtLastColumn ==
    lpc = "done" =>
        /\ pos = 8
        /\ BeliefAfter(Len(keys)) = 8
        /\ MiiList(lteam) = <<>> => keys = <<"r", "r", "r", "r", "r", "r", "r", "r">>

\* The run for a team without Miis has returned.
C23_WitnessNoMiis ==
    /\ lpc = "done"
    /\ \A j \in 1..TeamSize : lteam[j][1] < BaseCharCount
    /\ Len(keys) = 8

-----------------------------------------------------------------------------
(* C24                                                                     *)

\* The presses the claim lists for the target index idx: the open-selector
\* macro, idx // 10 page-advance macros, the anchor correction on the last
\* page of the registry, (idx mod 10) mod 5 times right, down if
\* idx mod 10 >= 5, confirm, cancel.
ListedPresses(idx, total) ==
    <<"a", "l", "l", "l", "l", "l", "l">>
    \o Concat(<<"r", "r", "r", "r", "r", "a", "l", "l", "l", "l", "l">>, idx \div 10)
    \o (IF idx \div 10 = (total - 1) \div 10 THEN <<"l", "l", "l", "u">> ELSE <<>>)
    \o [n \in 1..((idx % 10) % 5) |-> "r"]
    \o (IF idx % 10 >= 5 THEN <<"d">> ELSE <<>>)
    \o <<"a", "b">>

RECURSIVE ListedPressesUpTo(_)
ListedPressesUpTo(n) ==
    IF n = 0 THEN <<>>
    ELSE ListedPressesUpTo(n - 1) \o ListedPresses(marr[n][1], total_miis)

\* C24: the presses handleMiis has made in its loop are, for each target
\* index in the order of the list, the presses the claim lists.
C24_PressesPerIndex ==
    (mpc = "loop" /\ mi > 0) =>
        /\ mseg = ListedPresses(marr[mi][1], total_miis)
        /\ kbd = ListedPressesUpTo(mi)

\* Two entries processed: index 17 (one page advance, down, two right),
\* then the last Mii of a registry of 25.
C24_WitnessTwoEntries ==
    /\ mpc = "loop" /\ mi = 2
    /\ total_miis = 25
    /\ marr[1][1] = 17 /\ marr[2][1] = 24
    /\ Len(kbd) > Len(mseg)

-----------------------------------------------------------------------------
(* C25                                                                     *)

\* The address a branch word written by call n jumps to: the address of
\* the word plus the displacement in its low 16 bits (the displacements
\* here are positive and word-aligned).
BranchTarget(n) == <<dmm[n][2][1], dmm[n][2][2] + dmm[n][3][2]>>

\* The primary opcode of a word: its top six bits; 18 is the branch.
Opcode(word) == word[1] \div 1024

\* C25: the away block is followed by the marker load of 1 and a branch,
\* the home block by the marker load of 0 and no branch; the conditional
\* branch of the preamble lands on the first word of the home block and the
\* branch after the away block lands on the first word after the home
\* marker load.
C25_BranchesLand ==
    apc = "returned" =>
        LET test == 6
            awayEnd == AwayBlockAt + 4 * TeamSize
            homeEnd == HomeBlockAt + 4 * TeamSize
        IN /\ dmm[test][3] = W(\H4182, \H009C)
           /\ dmm[awayEnd][3] = W(\H39C0, 1)
           /\ dmm[awayEnd + 1][3] = W(\H4800, \H0098)
           /\ dmm[homeEnd][3] = W(\H39C0, 0)
           /\ Opcode(dmm[homeEnd + 1][3]) # 18
           /\ \A j \in 1..TeamSize : FourWordsFor(team2, HomeBlockAt, j)
           /\ BranchTarget(test) = dmm[HomeBlockAt][2]
           /\ BranchTarget(awayEnd + 1) = dmm[homeEnd + 1][2]

\* The patch for two teams with Miis, compiled to the end.
C25_WitnessBothWithMiis ==
    /\ apc = "returned"
    /\ Len(MiiList(team1)) = 2
    /\ Len(MiiList(team2)) = 2

-----------------------------------------------------------------------------
(* C26                                                                     *)

\* a | b and a & b of two integers from 0 to 2^31 - 1.
RECURSIVE BitOr(_, _)
BitOr(a, b) ==
    IF a = 0 THEN b
    ELSE IF b = 0 THEN a
    ELSE (IF a % 2 = 1 \/ b % 2 = 1 THEN 1 ELSE 0) + 2 * BitOr(a \div 2, b \div 2)

RECURSIVE BitAnd(_, _)
BitAnd(a, b) ==
    IF a = 0 \/ b = 0 THEN 0
    ELSE (IF a % 2 = 1 /\ b % 2 = 1 THEN 1 ELSE 0) + 2 * BitAnd(a \div 2, b \div 2)

\* The last instruction word of the patch is the third call from the end:
\* the metadata write and the detach follow it.
LastInstructionAt == Len(dmm) - 2

\* C26: the last instruction word of the patch is (0x8006aed8 - a) |
\* 0x48000000 for the address a it is written at, and the displacement
\* 0x8006aed8 - a shares no bit with 0x48000000, so the sum the code writes
\* is that word.
C26_FinalBranchIsOr ==
    apc = "returned" =>
        LET a == dmm[LastInstructionAt][2]
            displacement == (\H8006 - a[1]) * 65536 + (\Haed8 - a[2])
            word == BitOr(displacement, \H48000000)
        IN /\ displacement \in 0..(\H4000000 - 1)
           /\ BitAnd(displacement, \H48000000) = 0
           /\ dmm[LastInstructionAt][1] = "write_word"
           /\ dmm[LastInstructionAt][3] = <<word \div 65536, word % 65536>>

\* The final branch of a patch whose away team holds Miis, written after
\* padding at the address the next word would have gone to.
C26_WitnessAfterPadding ==
    /\ apc = "returned"
    /\ Len(MiiList(team1)) > 0
    /\ dmm[LastInstructionAt - 1][3] = Nop
    /\ dmm[LastInstructionAt][2] = PlusW(dmm[LastInstructionAt - 1][2], 4)

-----------------------------------------------------------------------------
(* C27                                                                     *)

\* Call n writes the word of the patch block that its place in the run
\* gives it: the (n - 2)-th word, at 0x800021f0 + 4 * (n - 3).
IsBlockWrite(n) ==
    /\ dmm[n][1] = "write_word"
    /\ dmm[n][2] = <<\H8000, \H21f0 + 4 * (n - 3)>>

\* Call n is the metadata write: it goes back to 0x800021f4 after block
\* writes only.
IsMetadataWrite(n) ==
    /\ n > 4
    /\ dmm[n][1] = "write_word"
    /\ dmm[n][2] = <<\H8000, \H21f4>>
    /\ \A m \in 3..(n - 1) : IsBlockWrite(m)

\* C27: at every point of generate_whodeyy_code the calls made so far
\* start with the attach and the write of the hook word 0x4bf97324 at
\* 0x8006aed4, so the hook word precedes every block word; every later call
\* writes the next word of the block, at consecutive increasing addresses
\* from 0x800021f0 and each address once, until the metadata write, which
\* only the detach follows.
C27_HookThenConsecutive ==
    /\ Len(dmm) >= 1 => dmm[1] = <<"hook">>
    /\ Len(dmm) >= 2 =>
          dmm[2] = <<"write_word", <<\H8006, \Haed4>>, <<\H4bf9, \H7324>>>>
    /\ \A n \in 3..Len(dmm) :
          \/ IsBlockWrite(n)
          \/ IsMetadataWrite(n)
          \/ n = Len(dmm) /\ dmm[n] = <<"un_hook">> /\ IsMetadataWrite(n - 1)
    /\ apc = "returned" => dmm[Len(dmm)] = <<"un_hook">>

\* A whole patch: the hook word, eighty-two block words at eighty-two
\* addresses, the metadata write.
C27_WitnessWholeBlock ==
    /\ apc = "returned"
    /\ raised = "none"
    /\ IsMetadataWrite(Len(dmm) - 1)
    /\ Cardinality({dmm[n][2] : n \in 3..LastInstructionAt}) = 82

-----------------------------------------------------------------------------
(* C28                                                                     *)

\* The cells finalize writes, in the order the claim lists them.
FinalizeCells ==
    << <<\H811f, \H769d>>, <<\H811f, \H769e>>, <<\H811f, \H769f>>,
       <<\H811f, \H76ac>>, <<\H811f, \H76ad>>,
       <<\H8079, \H4328>>, <<\H8079, \H4329>>, <<\H8079, \H432A>>,
       <<\H8079, \H432B>> >>

\* The id of the captain finalize resolves for a team: the first roster
\* player who is a captain, else the configured default when it is a
\* captain, else the captain at the fallback place of the table.
ResolvedCaptainId(team, default_id, fallback) ==
    LET found == {n \in 1..Len(team) : \E c \in 1..Len(captains) : captains[c] = team[n][1]}
    IN IF found # {}
       THEN team[CHOOSE n \in found : \A m \in found : n <= m][1]
       ELSE IF \E c \in 1..Len(captains) : captains[c] = default_id
       THEN default_id
       ELSE captains[fallback + 1]

\* The values the claim gives the nine cells, captains by id.
FinalizeValuesFit(writes) ==
    \A n \in 1..Len(writes) :
        /\ writes[n][2] = FinalizeCells[n]
        /\ n = 1 => writes[n][3] = stadium[1]
        /\ n \in {2, 3} => writes[n][3] = stadium[2]
        /\ n = 4 =>
              /\ writes[n][3] \in 0..(Len(captains) - 1)
              /\ captains[writes[n][3] + 1]
                    = ResolvedCaptainId(team1, default_away_captain_id, 0)
        /\ n = 5 =>
              /\ writes[n][3] \in 0..(Len(captains) - 1)
              /\ captains[writes[n][3] + 1]
                    = ResolvedCaptainId(team2, default_home_captain_id, 1)
        /\ n \in 6..9 => writes[n][3] = rules[n - 5]

\* C28: a finalize pass writes nine bytes and nothing else after attaching:
\* the stadium id to 0x811f769d, the day/night value to 0x811f769e and to
\* 0x811f769f, the resolved captain table indices of the away and the home
\* team to 0x811f76ac and 0x811f76ad, and innings, mercy, stars and items to
\* 0x80794328..0x8079432B, in that order; a pass cut short by a raising call
\* has made the first writes of that list.
C28_NineByteWrites ==
    LET writes == SelectSeq(dmm, LAMBDA c : c[1] = "write_byte")
    IN /\ \A n \in 2..Len(dmm) : dmm[n][1] = "write_byte"
       /\ Len(dmm) >= 1 => dmm[1] = <<"hook">>
       /\ Len(writes) <= 9
       /\ apc = "returned" => Len(writes) = 9
       /\ FinalizeValuesFit(writes)

\* A pass to its end with a night stadium, rules that all differ, and the
\* away captain found behind the first batter.
C28_WitnessNightGame ==
    /\ apc = "returned"
    /\ stadium = <<5, 1>>
    /\ rules = <<3, 0, 4, 2>>
    /\ team1[1][1] = 12 /\ team1[2][1] = 9
    /\ Len(dmm) = 10

-----------------------------------------------------------------------------
(* C29                                                                     *)

\* The calls of the phases of a run in which nothing raises, phase by
\* phase in the order the claim gives them.
PhasesInOrder ==
    << [n \in 1..Len(windows) |-> <<"activate", n>>],
       KeyCalls(NavigateKeys),
       FinalizeCalls(team1, team2, stadium, rules,
                     default_away_captain_id, default_home_captain_id),
       WholePatch(team1, team2),
       KeyCalls(HandleMiisKeys(SelCodeArr(team1), 0, total_miis)),
       KeyCalls(HandleMiisKeys(SelCodeArr(team2), 1, total_miis)),
       KeyCalls(ConfirmKeys),
       KeyCalls(LineupKeys(team1)),
       KeyCalls(BetweenKeys),
       KeyCalls(LineupKeys(team2)),
       KeyCalls(AfterKeys),
       FinalizeCalls(team1, team2, stadium, rules,
                     default_away_captain_id, default_home_captain_id) >>

\* The phases p..q one after the other.
PhasesJoined(phases, p, q) ==
    LET upto[n \in (p - 1)..q] == IF n < p THEN <<>> ELSE upto[n - 1] \o phases[n]
    IN upto[q]

\* The start-game input: the press of q, then of k, and their releases.
IsStartInput(call) == call[1] \in {"kb.press", "kb.release"}

\* C29: the calls of a run of automate() that returns are those of the
\* navigation, the first finalize, the patch, the Mii selection for the away
\* and then for the home team, the reordering for the away and then for the
\* home team with the fixed inputs around them, and the last finalize, in
\* that order, so no reordering input precedes a Mii-selection input; the
\* start-game input follows the last finalize when auto-start is set and is
\* absent when it is not, and no run has made it before the last finalize.
C29_PhasesInOrder ==
    \E phases \in {PhasesInOrder} :
        /\ apc = "returned" =>
              \E run \in {PhasesJoined(phases, 1, 12)} :
                  /\ Len(out) >= Len(run)
                  /\ SubSeq(out, 1, Len(run)) = run
                  /\ \A n \in 1..Len(run) : ~IsStartInput(out[n])
                  /\ auto_start_game =>
                        SubSeq(out, Len(run) + 1, Len(out))
                           = << <<"kb.press", "q">>, <<"kb.press", "k">>,
                                <<"kb.release", "k">>, <<"kb.release", "q">> >>
                  /\ ~auto_start_game => Len(out) = Len(run)
        /\ apc # "returned" => \A n \in 1..Len(out) : ~IsStartInput(out[n])

\* A returned run with auto-start set, Miis to select and to reorder in
\* the away team, and the start-game input last.
C29_WitnessStartAfterAll ==
    /\ apc = "returned"
    /\ auto_start_game
    /\ Len(MiiList(team1)) = 2
    /\ Len(LineupKeys(team1)) > 0
    /\ IsStartInput(out[Len(out)])

\* A returned run without auto-start: the log ends with the last finalize.
C29_WitnessNoStart ==
    /\ apc = "returned"
    /\ ~auto_start_game
    /\ out[Len(out)][1] = "write_byte"

-----------------------------------------------------------------------------
(* execute, call by call                                                   *)

MaxTokens == 3

notExe == <<valVars, orcVars, uiVars, luVars, runVars, miiVars, patchVars, autoVars,
            clbVars>>

\* press_up 'w', press_down 's', press_left 'a', press_right 'd',
\* press_a 'k', press_b 'l': the key each press function presses and
\* releases.
press_up == "w"
press_down == "s"
press_left == "a"
press_right == "d"
press_a == "k"
press_b == "l"

\* The if/elif chain of execute: the press function a letter selects.
\* "w" sleeps; a letter of no branch, "b" among them, selects none.
ExecuteBranch ==
    ("u" :> press_up) @@ ("d" :> press_down) @@ ("l" :> press_left)
    @@ ("r" :> press_right) @@ ("a" :> press_a)

\* The letter the loop is at.
Letter == xtokens[ip + 1]

\* kb.press(key) of the press function the letter selects.
ExecutePress ==
    /\ xpc = "loop" /\ ip < Len(xtokens) /\ xheld = ""
    /\ Letter \in DOMAIN ExecuteBranch
    /\ events' = Append(events, <<"kb.press", ExecuteBranch[Letter]>>)
    /\ xheld' = ExecuteBranch[Letter]
    /\ UNCHANGED <<xtokens, ip, xpc, notExe>>

\* kb.release(key) of the same press function; the loop moves on.
ExecuteRelease ==
    /\ xpc = "loop" /\ xheld # ""
    /\ events' = Append(events, <<"kb.release", xheld>>)
    /\ xheld' = ""
    /\ ip' = ip + 1
    /\ UNCHANGED <<xtokens, xpc, notExe>>

\* elif i == "w": time.sleep(0.5).
ExecuteWait ==
    /\ xpc = "loop" /\ ip < Len(xtokens) /\ xheld = ""
    /\ Letter = "w"
    /\ ip' = ip + 1
    /\ UNCHANGED <<xtokens, xheld, events, xpc, notExe>>

\* No branch of the chain matches the letter: nothing is done for it.
ExecuteNoBranch ==
    /\ xpc = "loop" /\ ip < Len(xtokens) /\ xheld = ""
    /\ Letter \notin DOMAIN ExecuteBranch /\ Letter # "w"
    /\ ip' = ip + 1
    /\ UNCHANGED <<xtokens, xheld, events, xpc, notExe>>

\* The loop is over: the settle delay, and execute returns.
ExecuteReturns ==
    /\ xpc = "loop" /\ ip = Len(xtokens) /\ xheld = ""
    /\ xpc' = "returned"
    /\ UNCHANGED <<xtokens, ip, xheld, events, notExe>>

\* The letters of the instruction strings: the six the code knows, and "b"
\* for the cancel token.
TokenLetters == {"u", "d", "l", "r", "a", "w", "b"}

InitExecute ==
    /\ xtokens \in UNION {[1..n -> TokenLetters] : n \in 0..MaxTokens}
    /\ ip = 0 /\ xheld = "" /\ events = <<>> /\ xpc = "loop"
    /\ ValIdle /\ OrcIdle /\ UiIdle /\ LuIdle /\ RunIdle /\ MiiIdle /\ PatchIdle
    /\ AutoIdle /\ ClbIdle

NextExecute ==
    \/ ExecutePress
    \/ ExecuteRelease
    \/ ExecuteWait
    \/ ExecuteNoBranch
    \/ ExecuteReturns

SpecExecute == InitExecute /\ [][NextExecute]_vars

-----------------------------------------------------------------------------
(* C30                                                                     *)

\* The key of each token that is to produce a key event: up, down, left,
\* right, confirm, cancel.
TokenKey ==
    ("u" :> "w") @@ ("d" :> "s") @@ ("l" :> "a") @@ ("r" :> "d")
    @@ ("a" :> "k") @@ ("b" :> "l")

\* One press and one release of the key of each of the first n tokens that
\* has one, in the order of the tokens.
EventsOfTokens(n) ==
    LET upto[m \in 0..n] ==
            IF m = 0 THEN <<>>
            ELSE IF xtokens[m] \in DOMAIN TokenKey
            THEN upto[m - 1] \o << <<"kb.press", TokenKey[xtokens[m]]>>,
                                   <<"kb.release", TokenKey[xtokens[m]]>> >>
            ELSE upto[m - 1]
    IN upto[n]

=============================================================================
